---- MODULE Spec2Model ----
(***************************************************************************)
(* clickhouse-analyzer: the tokenizer (src/lexer/tokenizer.rs) and the     *)
(* event-based CST parser (src/parser/...) as TLA+ operators, applied by   *)
(* the actions of six specifications: SpecLex calls tokenize and           *)
(* tokenize_with_whitespace on bounded character strings, SpecUpTo calls   *)
(* tokenize_up_to on them, SpecKeyword calls the keyword tests of the      *)
(* parser on the spellings of the keywords, SpecCalls calls the methods of *)
(* the parser one by one as a grammar rule does, and SpecParse calls parse *)
(* on bounded texts, then Tree::print and analyze on the tree              *)
(* (src/lib.rs); SpecParseFair is SpecParse run without stopping.          *)
(*                                                                         *)
(* A text is a sequence of characters, each a one-character string.  A     *)
(* Rust function taking &mut self and returning a value is an operator     *)
(* from the struct to a record of the new struct and the value.  A panic   *)
(* is recorded in the struct's field panic: once set, every later          *)
(* operation leaves the struct alone and every loop ends (the unwinding).  *)
(***************************************************************************)
EXTENDS Integers, Sequences, FiniteSets, TLC

(***************************************************************************)
(* Characters (std::char)                                                  *)
(***************************************************************************)
NoneChar == ""
NoPanic == ""

AsciiDigits == {"0", "1", "2", "3", "4", "5", "6", "7", "8", "9"}
AsciiLower ==
  {"a", "b", "c", "d", "e", "f", "g", "h", "i", "j", "k", "l", "m",
   "n", "o", "p", "q", "r", "s", "t", "u", "v", "w", "x", "y", "z"}
AsciiUpper ==
  {"A", "B", "C", "D", "E", "F", "G", "H", "I", "J", "K", "L", "M",
   "N", "O", "P", "Q", "R", "S", "T", "U", "V", "W", "X", "Y", "Z"}
\* The back quote U+0060, which a TLA+ string cannot hold, under its code point.
BackQuote == "U+0060"
\* The non-ASCII characters of the model: a two-byte letter.
TwoByteLetters == {"é"}

len_utf8(c) == IF c \in TwoByteLetters THEN 2 ELSE 1
is_whitespace(c) == c \in {" ", "\n", "\t", "\r"}
is_ascii_digit(c) == c \in AsciiDigits
is_ascii_hexdigit(c) ==
  c \in AsciiDigits \cup {"a", "b", "c", "d", "e", "f", "A", "B", "C", "D", "E", "F"}
is_alphabetic(c) == c \in AsciiLower \cup AsciiUpper \cup TwoByteLetters
is_alphanumeric(c) == is_alphabetic(c) \/ is_ascii_digit(c)

RECURSIVE str_len(_)
\* str::len: the length in bytes
str_len(text) ==
  IF text = <<>> THEN 0 ELSE len_utf8(Head(text)) + str_len(Tail(text))

RECURSIVE count_newlines(_)
count_newlines(text) ==
  IF text = <<>> THEN 0
  ELSE (IF Head(text) = "\n" THEN 1 ELSE 0) + count_newlines(Tail(text))

(***************************************************************************)
(* Token (src/lexer/token.rs)                                              *)
(***************************************************************************)
Token(kind, value, start, end, line, column) ==
  [kind |-> kind, text |-> value, start |-> start, end |-> end,
   line |-> line, column |-> column]

NoToken == Token("NoToken", <<>>, 0, 0, 0, 0)

(***************************************************************************)
(* Tokenizer (src/lexer/tokenizer.rs)                                      *)
(*                                                                         *)
(* Fields as in the struct.  chars, the character iterator, is the count i *)
(* of characters consumed; starti is the character index that the byte     *)
(* offset start stands for.  input is the enumerated text, followed by pad *)
(* more bytes that no scan of the model reads (pad > 0 only for inputs     *)
(* over the size limit).  overflow_checks is the build's setting: with it  *)
(* a usize subtraction below zero panics, without it the result wraps; a   *)
(* wrapped value 2^w - k is written -k.                                    *)
(***************************************************************************)
MAX_QUERY_SIZE == 1000000

Tokenizer_new(input, pad, overflow_checks) ==
  [input |-> input, pad |-> pad, input_len |-> str_len(input) + pad,
   i |-> 0, position |-> 0, start |-> 0, starti |-> 0,
   line |-> 1, column |-> 1, include_whitespace |-> TRUE,
   overflow_checks |-> overflow_checks, panic |-> NoPanic]

set_include_whitespace(s, include) == [s EXCEPT !.include_whitespace = include]

\* A function's return: the tokenizer after the call and the token.
Ret(s, tok) == [s |-> s, tok |-> tok]
Panicked(s, message) == Ret([s EXCEPT !.panic = message], NoToken)

Tokenizer_advance(s) ==
  IF s.i < Len(s.input)
  THEN LET c == s.input[s.i + 1]
       IN  [s |-> [s EXCEPT !.i = @ + 1,
                            !.position = @ + len_utf8(c),
                            !.line = IF c = "\n" THEN @ + 1 ELSE @,
                            !.column = IF c = "\n" THEN 1 ELSE @ + 1],
            c |-> c]
  ELSE [s |-> s, c |-> NoneChar]

peek(s) == IF s.i < Len(s.input) THEN s.input[s.i + 1] ELSE NoneChar
\* a slip: the character after the next one taken to be the next one
peek_next_is_peek(s) == peek(s)

peek_next(s) == IF s.i + 1 < Len(s.input) THEN s.input[s.i + 2] ELSE NoneChar
peek_is(s, expected) == peek(s) # NoneChar /\ peek(s) = expected
current_char_is_digit(s) == peek(s) # NoneChar /\ is_ascii_digit(peek(s))

\* a slip: any next character taken for the expected one
match_char_any(s, expected) ==
  IF peek(s) # NoneChar
  THEN [s |-> Tokenizer_advance(s).s, r |-> TRUE]
  ELSE [s |-> s, r |-> FALSE]

match_char(s, expected) ==
  IF peek_is(s, expected)
  THEN [s |-> Tokenizer_advance(s).s, r |-> TRUE]
  ELSE [s |-> s, r |-> FALSE]

is_at_end(s) == s.position >= s.input_len

\* &self.input[self.start..self.position]
lexeme_of(s) == SubSeq(s.input, s.starti + 1, s.i)

RECURSIVE column_at_start(_, _, _)
\* create_token's loop over self.input[..self.start].char_indices()
column_at_start(text, k, col) ==
  IF k > Len(text) THEN col
  ELSE column_at_start(text, k + 1, IF text[k] = "\n" THEN 1 ELSE col + 1)

\* Without overflow checks self.column - lexeme.len() wraps when the column
\* is the smaller: the difference below zero stands for that value plus 2^w,
\* w the width of usize.
create_token(s, kind) ==
  LET lexeme == lexeme_of(s)
      nbytes == s.position - s.start
      is_multiline == \E k \in 1..Len(lexeme) : lexeme[k] = "\n"
      line == s.line - count_newlines(lexeme)
  IN  IF is_multiline
      THEN Ret(s, Token(kind, lexeme, s.start, s.position, line,
                        column_at_start(SubSeq(s.input, 1, s.starti), 1, 1)))
      ELSE IF s.column < nbytes /\ s.overflow_checks
      THEN Panicked(s, "attempt to subtract with overflow")
      ELSE Ret(s, Token(kind, lexeme, s.start, s.position, line, s.column - nbytes))

error_token(s, kind) == Token(kind, <<>>, s.position, s.position, s.line, s.column)
eof_token(s) == Token("EndOfStream", <<>>, s.position, s.position, s.line, s.column)

RECURSIVE read_whitespace(_)
read_whitespace(s) ==
  IF peek(s) # NoneChar /\ is_whitespace(peek(s))
  THEN read_whitespace(Tokenizer_advance(s).s)
  ELSE create_token(s, "Whitespace")

RECURSIVE read_single_line_comment(_)
read_single_line_comment(s) ==
  IF peek(s) # NoneChar /\ peek(s) # "\n"
  THEN read_single_line_comment(Tokenizer_advance(s).s)
  ELSE create_token(s, "Comment")

RECURSIVE flat_comment_loop(_, _)
\* a slip: block comments that do not nest, the first */ closing the comment
flat_comment_loop(s, depth) ==
  IF depth > 0
  THEN LET a == Tokenizer_advance(s)
       IN  IF a.c = NoneChar
           THEN create_token(a.s, "ErrorMultilineCommentIsNotClosed")
           ELSE IF a.c = "*" /\ match_char(a.s, "/").r
           THEN create_token(match_char(a.s, "/").s, "Comment")
           ELSE flat_comment_loop(a.s, depth)
  ELSE create_token(s, "Comment")

RECURSIVE multi_line_comment_loop(_, _)
\* the loop of read_multi_line_comment: while depth > 0
multi_line_comment_loop(s, depth) ==
  IF depth > 0
  THEN LET a == Tokenizer_advance(s)
       IN  IF a.c = NoneChar
           THEN create_token(a.s, "ErrorMultilineCommentIsNotClosed")
           ELSE IF a.c = "/" /\ match_char(a.s, "*").r
           THEN multi_line_comment_loop(match_char(a.s, "*").s, depth + 1)
           ELSE IF a.c = "*" /\ match_char(a.s, "/").r
           THEN multi_line_comment_loop(match_char(a.s, "/").s, depth - 1)
           ELSE multi_line_comment_loop(a.s, depth)
  ELSE create_token(s, "Comment")

\* a slip: the opener itself not counted in the depth
read_multi_line_comment_depth0(s) == multi_line_comment_loop(s, 0)

read_multi_line_comment(s) == multi_line_comment_loop(s, 1)

RECURSIVE digits_loop(_, _, _)
\* the loop shared by read_digits and read_hex_digits; hex selects the digit
\* test (is_ascii_hexdigit or is_ascii_digit)
digits_loop(s, hex, start_of_block) ==
  LET c == peek(s)
      digit(d) == IF hex THEN is_ascii_hexdigit(d) ELSE is_ascii_digit(d)
  IN  IF c = NoneChar THEN s
      ELSE IF digit(c) THEN digits_loop(Tokenizer_advance(s).s, hex, FALSE)
      ELSE IF c = "_" /\ ~start_of_block
                /\ peek_next(s) # NoneChar /\ digit(peek_next(s))
      THEN digits_loop(Tokenizer_advance(s).s, hex, TRUE)
      ELSE s

read_hex_digits(s) == digits_loop(s, TRUE, TRUE)
read_digits(s) == digits_loop(s, FALSE, TRUE)

RECURSIVE identifier_chars_loop(_)
\* the while loop of read_identifier_starting_with_number
identifier_chars_loop(s) ==
  LET c == peek(s)
  IN  IF c # NoneChar /\ (is_alphanumeric(c) \/ c = "_" \/ c = "$")
      THEN identifier_chars_loop(Tokenizer_advance(s).s)
      ELSE s

\* a slip: the span taken for an identifier without the check of its characters
read_identifier_unchecked(s) == create_token(identifier_chars_loop(s), "BareWord")

read_identifier_starting_with_number(s) ==
  LET s1 == identifier_chars_loop(s)
      lexeme == lexeme_of(s1)
      is_valid_identifier ==
        \A k \in 1..Len(lexeme) :
          is_alphanumeric(lexeme[k]) \/ lexeme[k] = "_" \/ lexeme[k] = "$"
  IN  IF is_valid_identifier
      THEN create_token(s1, "BareWord")
      ELSE create_token(s1, "ErrorWrongNumber")

\* a slip: the hex prefix taken whatever follows it
number_prefix_without_lookahead(s) ==
  IF s.position - s.start = 1 /\ lexeme_of(s) = <<"0">> /\ peek(s) # NoneChar
  THEN IF peek(s) \in {"x", "X"}
       THEN [s |-> Tokenizer_advance(s).s, hex |-> TRUE]
       ELSE IF peek(s) \in {"b", "B"} /\ peek_next(s) \in {"0", "1"}
       THEN [s |-> Tokenizer_advance(s).s, hex |-> FALSE]
       ELSE [s |-> s, hex |-> FALSE]
  ELSE [s |-> s, hex |-> FALSE]

\* read_number, lines 305-331: the hex or binary prefix after a leading 0
number_prefix(s) ==
  IF s.position - s.start = 1 /\ lexeme_of(s) = <<"0">> /\ peek(s) # NoneChar
  THEN IF peek(s) \in {"x", "X"}
       THEN IF peek_next(s) # NoneChar /\ is_ascii_hexdigit(peek_next(s))
            THEN [s |-> Tokenizer_advance(s).s, hex |-> TRUE]
            ELSE [s |-> s, hex |-> FALSE]
       ELSE IF peek(s) \in {"b", "B"}
       THEN IF peek_next(s) \in {"0", "1"}
            THEN [s |-> Tokenizer_advance(s).s, hex |-> FALSE]
            ELSE [s |-> s, hex |-> FALSE]
       ELSE [s |-> s, hex |-> FALSE]
  ELSE [s |-> s, hex |-> FALSE]

\* read_number, lines 333-349: the integer part and the fractional part
number_mantissa(s, hex) ==
  LET s1 == digits_loop(s, hex, TRUE)
  IN  IF peek_is(s1, ".")
      THEN digits_loop(Tokenizer_advance(s1).s, hex, TRUE)
      ELSE s1

\* read_number, lines 372-377: an identifier that starts with a number
number_end(s) ==
  IF ~is_at_end(s) /\ peek(s) # NoneChar /\ (is_alphabetic(peek(s)) \/ peek(s) = "_")
  THEN read_identifier_starting_with_number(s)
  ELSE create_token(s, "Number")

\* a slip: the exponent's digits not required
number_exponent_without_digits(s, hex) ==
  LET c == peek(s)
  IN  IF c # NoneChar /\ ((hex /\ c \in {"p", "P"}) \/ (~hex /\ c \in {"e", "E"}))
      THEN LET s1 == Tokenizer_advance(s).s
               s2 == IF peek_is(s1, "+") \/ peek_is(s1, "-")
                     THEN Tokenizer_advance(s1).s ELSE s1
           IN  number_end(read_digits(s2))
      ELSE number_end(s)

\* read_number, lines 351-377: the exponent, then the end of the number
number_exponent(s, hex) ==
  LET c == peek(s)
  IN  IF c # NoneChar /\ ((hex /\ c \in {"p", "P"}) \/ (~hex /\ c \in {"e", "E"}))
      THEN LET s1 == Tokenizer_advance(s).s
               s2 == IF peek_is(s1, "+") \/ peek_is(s1, "-")
                     THEN Tokenizer_advance(s1).s ELSE s1
           IN  IF ~current_char_is_digit(s2)
               THEN create_token(s2, "ErrorWrongNumber")
               ELSE number_end(read_digits(s2))
      ELSE number_end(s)

\* a slip: the number after a dot scanned as a full number
read_number_after_dot_in_full(s) ==
  IF s.position > 0 /\ s.start > 0 /\ len_utf8(s.input[s.starti]) # 1
  THEN Panicked(s, "byte index is not a char boundary")
  ELSE LET pre == number_prefix(s)
       IN  number_exponent(number_mantissa(pre.s, pre.hex), pre.hex)

read_number(s) ==
  \* &self.input[self.start-1..self.start] panics unless start-1 is a char
  \* boundary, that is unless the character before start is one byte long
  IF s.position > 0 /\ s.start > 0 /\ len_utf8(s.input[s.starti]) # 1
  THEN Panicked(s, "byte index is not a char boundary")
  ELSE LET prev_was_dot ==
             s.position > 0 /\ s.start > 0 /\ s.input[s.starti] = "."
       IN  IF prev_was_dot
           THEN number_end(read_digits(s))
           ELSE LET pre == number_prefix(s)
                IN  number_exponent(number_mantissa(pre.s, pre.hex), pre.hex)

RECURSIVE string_loop(_, _, _, _, _)
\* the loop of read_string
string_loop(s, quote, success_type, error_type, escaped) ==
  LET c == peek(s)
  IN  IF c = NoneChar THEN create_token(s, error_type)
      ELSE IF c = quote /\ ~escaped
      THEN IF peek_next(s) = quote
           THEN string_loop(Tokenizer_advance(Tokenizer_advance(s).s).s,
                            quote, success_type, error_type, FALSE)
           ELSE create_token(Tokenizer_advance(s).s, success_type)
      ELSE IF c = "\\" /\ ~escaped
      THEN string_loop(Tokenizer_advance(s).s, quote, success_type, error_type, TRUE)
      ELSE string_loop(Tokenizer_advance(s).s, quote, success_type, error_type, FALSE)

read_string(s, quote, success_type, error_type) ==
  string_loop(s, quote, success_type, error_type, FALSE)

RECURSIVE read_bare_word(_)
read_bare_word(s) ==
  LET c == peek(s)
  IN  IF c # NoneChar /\ (is_alphanumeric(c) \/ c = "_")
      THEN read_bare_word(Tokenizer_advance(s).s)
      ELSE create_token(s, "BareWord")

\* next_token's match arms that make a token of the one character read
single_char_kind(c) ==
  CASE c = "(" -> "OpeningRoundBracket"
    [] c = ")" -> "ClosingRoundBracket"
    [] c = "[" -> "OpeningSquareBracket"
    [] c = "]" -> "ClosingSquareBracket"
    [] c = "{" -> "OpeningCurlyBrace"
    [] c = "}" -> "ClosingCurlyBrace"
    [] c = "," -> "Comma"
    [] c = ";" -> "Semicolon"
    [] c = "." -> "Dot"
    [] c = "*" -> "Asterisk"
    [] c = "$" -> "DollarSign"
    [] c = "+" -> "Plus"
    [] c = "/" -> "Slash"
    [] c = "%" -> "Percent"
    [] c = "?" -> "QuestionMark"
    [] c = "^" -> "Caret"
    [] OTHER -> "Error"

\* next_token's match arms that look at the following characters
operator_token(s, c) ==
  LET m(x) == match_char(s, x)
      mm(x, y) == match_char(m(x).s, y)
  IN  CASE c = "-" ->
             IF m(">").r THEN create_token(m(">").s, "Arrow")
             ELSE create_token(s, "Minus")
        [] c = ":" ->
             IF m(":").r THEN create_token(m(":").s, "DoubleColon")
             ELSE create_token(s, "Colon")
        [] c = "=" ->
             IF m(">").r
             THEN IF mm(">", "<").r THEN create_token(mm(">", "<").s, "Spaceship")
                  ELSE create_token(m(">").s, "Equals")
             ELSE create_token(s, "Equals")
        [] c = "!" ->
             IF m("=").r THEN create_token(m("=").s, "NotEquals")
             ELSE create_token(s, "ErrorSingleExclamationMark")
        [] c = "<" ->
             IF m("=").r
             THEN IF mm("=", ">").r THEN create_token(mm("=", ">").s, "Spaceship")
                  ELSE create_token(m("=").s, "LessOrEquals")
             ELSE IF m(">").r THEN create_token(m(">").s, "NotEquals")
             ELSE create_token(s, "Less")
        [] c = ">" ->
             IF m("=").r THEN create_token(m("=").s, "GreaterOrEquals")
             ELSE create_token(s, "Greater")
        [] c = "|" ->
             IF m("|").r THEN create_token(m("|").s, "Concatenation")
             ELSE create_token(s, "ErrorSinglePipeMark")
        [] c = "@" ->
             IF m("@").r THEN create_token(m("@").s, "DoubleAt")
             ELSE create_token(s, "At")
        [] c = "\\" ->
             IF m("G").r THEN create_token(m("G").s, "VerticalDelimiter")
             ELSE IF m("g").r THEN create_token(m("g").s, "VerticalDelimiter")
             ELSE create_token(s, "Error")

next_token(s0) ==
  LET s == [s0 EXCEPT !.start = s0.position, !.starti = s0.i]
      a == Tokenizer_advance(s)
      c == a.c
      s1 == a.s
  IN  IF is_at_end(s) \/ c = NoneChar THEN Ret(s, eof_token(s))
      ELSE IF is_whitespace(c) THEN read_whitespace(s1)
      ELSE IF c = "-" /\ match_char(s1, "-").r
      THEN read_single_line_comment(match_char(s1, "-").s)
      ELSE IF c = "/" /\ match_char(s1, "*").r
      THEN read_multi_line_comment(match_char(s1, "*").s)
      ELSE IF is_ascii_digit(c) THEN read_number(s1)
      ELSE IF c = "'"
      THEN read_string(s1, "'", "StringLiteral", "ErrorSingleQuoteIsNotClosed")
      ELSE IF c = "\""
      THEN read_string(s1, "\"", "QuotedIdentifier", "ErrorDoubleQuoteIsNotClosed")
      ELSE IF c = BackQuote
      THEN read_string(s1, BackQuote, "QuotedIdentifier", "ErrorBackQuoteIsNotClosed")
      ELSE IF c \in {"-", ":", "=", "!", "<", ">", "|", "@", "\\"}
      THEN operator_token(s1, c)
      ELSE IF c \in AsciiLower \cup AsciiUpper \cup {"_"} THEN read_bare_word(s1)
      ELSE create_token(s1, single_char_kind(c))

\* a slip: trivia dropped whatever include_whitespace says
keeps_token_never_trivia(s, token) == token.kind \notin {"Whitespace", "Comment"}

\* a slip: only whitespace dropped when trivia is excluded, comments kept
keeps_token_but_whitespace(s, token) ==
  ~(~s.include_whitespace /\ token.kind = "Whitespace")

\* a slip: comments dropped whether trivia is included or not
keeps_token_but_comments(s, token) ==
  ~(token.kind = "Comment" \/ (~s.include_whitespace /\ token.kind = "Whitespace"))

\* tokenize keeps a token unless it is trivia and trivia is excluded
keeps_token(s, token) ==
  ~(~s.include_whitespace /\ token.kind \in {"Whitespace", "Comment"})

\* a slip: the end-of-stream token pushed before the loop ends
push_then_break(tokens, token) ==
  [tokens |-> Append(tokens, token), break |-> token.kind = "EndOfStream"]

\* tokenize, lines 95-99: the end-of-stream token ends the loop, any other
\* kept token is pushed
push_or_break(tokens, token) ==
  IF token.kind = "EndOfStream"
  THEN [tokens |-> tokens, break |-> TRUE]
  ELSE [tokens |-> Append(tokens, token), break |-> FALSE]

RECURSIVE tokenize_loop(_, _)
\* the loop of Tokenizer::tokenize; the value is the vector returned, or the
\* panic that ended the call
tokenize_loop(s, tokens) ==
  LET r == next_token(s)
  IN  IF r.s.panic # NoPanic THEN [tokens |-> <<>>, panic |-> r.s.panic]
      ELSE IF ~keeps_token(r.s, r.tok) THEN tokenize_loop(r.s, tokens)
      ELSE LET step == push_or_break(tokens, r.tok)
           IN  IF step.break THEN [tokens |-> step.tokens, panic |-> NoPanic]
               ELSE tokenize_loop(r.s, step.tokens)

\* a slip: the input scanned whatever its size
tokenize_without_guard(s) == tokenize_loop(s, <<>>)

Tokenizer_tokenize(s) ==
  IF s.input_len > MAX_QUERY_SIZE
  THEN [tokens |-> <<error_token(s, "ErrorMaxQuerySizeExceeded"), eof_token(s)>>,
        panic |-> NoPanic]
  ELSE tokenize_loop(s, <<>>)

tokenize_with_whitespace(sql, pad, overflow_checks) ==
  Tokenizer_tokenize(set_include_whitespace(Tokenizer_new(sql, pad, overflow_checks), TRUE))

tokenize(sql, pad, overflow_checks) ==
  Tokenizer_tokenize(set_include_whitespace(Tokenizer_new(sql, pad, overflow_checks), FALSE))

RECURSIVE up_to_loop(_, _, _)
\* the loop of Tokenizer::tokenize_up_to_position; the value is the vector
\* returned, or the panic that ended the call
up_to_loop(s, position, tokens) ==
  IF ~(~is_at_end(s) /\ s.position < position)
  THEN [tokens |-> tokens, panic |-> NoPanic]
  ELSE LET r == next_token(s)
       IN  IF r.s.panic # NoPanic THEN [tokens |-> <<>>, panic |-> r.s.panic]
           ELSE IF ~r.s.include_whitespace /\ r.tok.kind = "Whitespace"
           THEN up_to_loop(r.s, position, tokens)
           ELSE IF r.tok.kind = "EndOfStream"
           THEN [tokens |-> Append(tokens, r.tok), panic |-> NoPanic]
           ELSE up_to_loop(r.s, position, Append(tokens, r.tok))

tokenize_up_to_position(s, position) == up_to_loop(s, position, <<>>)

tokenize_up_to(sql, pad, overflow_checks, position) ==
  tokenize_up_to_position(
    set_include_whitespace(Tokenizer_new(sql, pad, overflow_checks), FALSE), position)

(***************************************************************************)
(* Keyword (src/parser/keyword.rs)                                         *)
(***************************************************************************)
as_str(keyword) ==
  CASE keyword = "With" -> <<"W", "I", "T", "H">>
    [] keyword = "Select" -> <<"S", "E", "L", "E", "C", "T">>
    [] keyword = "From" -> <<"F", "R", "O", "M">>
    [] keyword = "Order" -> <<"O", "R", "D", "E", "R">>
    [] keyword = "By" -> <<"B", "Y">>
    [] keyword = "As" -> <<"A", "S">>
    [] keyword = "Where" -> <<"W", "H", "E", "R", "E">>
    [] keyword = "And" -> <<"A", "N", "D">>
    [] keyword = "Or" -> <<"O", "R">>
    [] keyword = "Limit" -> <<"L", "I", "M", "I", "T">>

LowerLetters ==
  <<"a", "b", "c", "d", "e", "f", "g", "h", "i", "j", "k", "l", "m",
    "n", "o", "p", "q", "r", "s", "t", "u", "v", "w", "x", "y", "z">>
UpperLetters ==
  <<"A", "B", "C", "D", "E", "F", "G", "H", "I", "J", "K", "L", "M",
    "N", "O", "P", "Q", "R", "S", "T", "U", "V", "W", "X", "Y", "Z">>

to_ascii_uppercase(c) ==
  IF c \in AsciiLower
  THEN UpperLetters[CHOOSE k \in 1..26 : LowerLetters[k] = c]
  ELSE c

\* a slip: the texts compared as they are
eq_exactly(a, b) == a = b

\* str::eq_ignore_ascii_case
eq_ignore_ascii_case(a, b) ==
  /\ Len(a) = Len(b)
  /\ \A k \in 1..Len(a) : to_ascii_uppercase(a[k]) = to_ascii_uppercase(b[k])

(***************************************************************************)
(* Parser (src/parser/parser.rs)                                           *)
(*                                                                         *)
(* Fields as in the struct; stderr is what eprintln! has written.  A mark  *)
(* is its index, counted from 0 as in the Vec.  Two fields are history and *)
(* not of the struct: marks, the indices at which the Open events of the   *)
(* nodes still open are now, and marks_valid, which is true as long as     *)
(* every open_before has inserted after all of them and every close has    *)
(* been given one of them with its Open(ErrorTree) still there.            *)
(***************************************************************************)
OpenEvent(kind) == [type |-> "Open", kind |-> kind]
CloseEvent == [type |-> "Close", kind |-> ""]
AdvanceEvent == [type |-> "Advance", kind |-> ""]

Parser_new(tokens) ==
  [tokens |-> tokens, pos |-> 0, fuel |-> 256, events |-> <<>>,
   stderr |-> <<>>, panic |-> NoPanic, marks |-> {}, marks_valid |-> TRUE]

\* the parser stopped by a panic
Unwinding(p) == p.panic # NoPanic
Panic(p, message) == [p EXCEPT !.panic = message]
\* A method's return: the parser after the call and the value.
Val(p, r) == [p |-> p, r |-> r]
\* A mark returned: the parser after the call and the mark's index.
Mark(p, index) == [p |-> p, m |-> index]

\* Vec::insert(index, element)
InsertAt(seq, index, element) ==
  SubSeq(seq, 1, index) \o <<element>> \o SubSeq(seq, index + 1, Len(seq))

\* the marks after an Open event was inserted at index m
MarksAfterInsert(marks, m) ==
  {k \in marks : k < m} \cup {k + 1 : k \in {j \in marks : j >= m}} \cup {m}

open(p) ==
  IF Unwinding(p) THEN Mark(p, 0)
  ELSE Mark([p EXCEPT !.events = Append(@, OpenEvent("ErrorTree")),
                      !.marks = @ \cup {Len(p.events)}],
            Len(p.events))

\* a slip: the Open event pushed at the end as open does, the mark of the
\* node returned
open_before_pushing(p, m) ==
  IF Unwinding(p) THEN Mark(p, m)
  ELSE Mark([p EXCEPT !.events = Append(@, OpenEvent("ErrorTree")),
                      !.marks = @ \cup {Len(p.events)}],
            m)

\* a slip: the Open event put after the Open event of the node, not before
open_before_after(p, m) ==
  IF Unwinding(p) THEN Mark(p, m)
  ELSE IF m + 1 > Len(p.events) THEN Mark(Panic(p, "insertion index out of bounds"), m)
  ELSE Mark([p EXCEPT !.events = InsertAt(@, m + 1, OpenEvent("ErrorTree")),
                      !.marks = MarksAfterInsert(@, m + 1),
                      !.marks_valid = @ /\ \A k \in p.marks : k < m + 1],
            m)

open_before(p, m) ==
  IF Unwinding(p) THEN Mark(p, m)
  ELSE IF m > Len(p.events) THEN Mark(Panic(p, "insertion index out of bounds"), m)
  ELSE Mark([p EXCEPT !.events = InsertAt(@, m, OpenEvent("ErrorTree")),
                      !.marks = MarksAfterInsert(@, m),
                      !.marks_valid = @ /\ \A k \in p.marks : k < m],
            m)

\* a slip: the kind set, the Close event not pushed
close_without_event(p, m, kind) ==
  IF Unwinding(p) THEN Mark(p, m)
  ELSE IF m >= Len(p.events) THEN Mark(Panic(p, "index out of bounds"), m)
  ELSE Mark([p EXCEPT !.events[m + 1] = OpenEvent(kind),
                      !.marks = @ \ {m},
                      !.marks_valid =
                        @ /\ m \in p.marks /\ p.events[m + 1] = OpenEvent("ErrorTree")],
            m)

close(p, m, kind) ==
  IF Unwinding(p) THEN Mark(p, m)
  ELSE IF m >= Len(p.events) THEN Mark(Panic(p, "index out of bounds"), m)
  ELSE Mark([p EXCEPT !.events = Append([@ EXCEPT ![m + 1] = OpenEvent(kind)], CloseEvent),
                      !.marks = @ \ {m},
                      !.marks_valid =
                        @ /\ m \in p.marks /\ p.events[m + 1] = OpenEvent("ErrorTree")],
            m)

eof(p) == p.pos = Len(p.tokens)

\* a slip: the fuel checked and not consumed
burn_fuel_checked_only(p) ==
  IF p.fuel = 0 THEN Panic(p, "parser is stuck") ELSE p

\* the fuel check and the fuel consumption every lookahead starts with
burn_fuel(p) ==
  IF p.fuel = 0 THEN Panic(p, "parser is stuck") ELSE [p EXCEPT !.fuel = @ - 1]

nth_with_trivia(p, lookahead) ==
  IF Unwinding(p) THEN Val(p, "EndOfStream")
  ELSE Val(burn_fuel(p),
           IF p.fuel # 0 /\ p.pos + lookahead < Len(p.tokens)
           THEN p.tokens[p.pos + lookahead + 1].kind ELSE "EndOfStream")

nth_text_with_trivia(p, lookahead) ==
  IF Unwinding(p) THEN Val(p, <<>>)
  ELSE Val(burn_fuel(p),
           IF p.fuel # 0 /\ p.pos + lookahead < Len(p.tokens)
           THEN p.tokens[p.pos + lookahead + 1].text ELSE <<>>)

at_with_trivia(p, kind) ==
  LET n == nth_with_trivia(p, 0) IN Val(n.p, n.r = kind)

at_any_with_trivia(p, kinds) ==
  LET n == nth_with_trivia(p, 0) IN Val(n.p, n.r \in kinds)

\* a slip: the Advance event not pushed
advance_without_event(p) ==
  IF Unwinding(p) THEN p
  ELSE IF eof(p) THEN Panic(p, "assertion failed: !self.eof()")
  ELSE [nth_text_with_trivia([p EXCEPT !.fuel = 256], 0).p EXCEPT !.pos = @ + 1]

\* advance: the println! of the token's text is not kept, the fuel its
\* nth_text_with_trivia(0) takes is
Parser_advance(p) ==
  IF Unwinding(p) THEN p
  ELSE IF eof(p) THEN Panic(p, "assertion failed: !self.eof()")
  ELSE LET p1 == [p EXCEPT !.fuel = 256, !.events = Append(@, AdvanceEvent)]
           printed == nth_text_with_trivia(p1, 0)
       IN  [printed.p EXCEPT !.pos = @ + 1]

\* The value of an expression over a local: the one element of
\* {expression : local \in {value}}
The(S) == CHOOSE r \in S : TRUE

RECURSIVE skip_trivia(_)
skip_trivia(p) ==
  IF Unwinding(p) THEN p
  ELSE The({ IF a.r /\ ~Unwinding(a.p) /\ ~eof(a.p)
             THEN skip_trivia(Parser_advance(a.p))
             ELSE a.p
             : a \in {at_any_with_trivia(p, {"Whitespace", "Comment"})} })

nth(p, lookahead) ==
  IF Unwinding(p) THEN Val(p, "EndOfStream")
  ELSE
  The({ IF Unwinding(p1) THEN Val(p1, "EndOfStream")
        ELSE Val(burn_fuel(p1),
                 IF p1.fuel # 0 /\ p1.pos + lookahead < Len(p1.tokens)
                 THEN p1.tokens[p1.pos + lookahead + 1].kind ELSE "EndOfStream")
        : p1 \in {skip_trivia(p)} })

nth_text(p, lookahead) ==
  IF Unwinding(p) THEN Val(p, <<>>)
  ELSE
  The({ IF Unwinding(p1) THEN Val(p1, <<>>)
        ELSE Val(burn_fuel(p1),
                 IF p1.fuel # 0 /\ p1.pos + lookahead < Len(p1.tokens)
                 THEN p1.tokens[p1.pos + lookahead + 1].text ELSE <<>>)
        : p1 \in {skip_trivia(p)} })

at(p, kind) ==
  IF Unwinding(p) THEN Val(p, FALSE)
  ELSE
  The({ Val(n.p, ~Unwinding(n.p) /\ n.r = kind) : n \in {nth(p, 0)} })

at_any(p, kinds) ==
  IF Unwinding(p) THEN Val(p, FALSE)
  ELSE
  The({ Val(n.p, ~Unwinding(n.p) /\ n.r \in kinds) : n \in {nth(p, 0)} })

eat(p, kind) ==
  IF Unwinding(p) THEN Val(p, FALSE)
  ELSE
  The({ IF a.r THEN Val(Parser_advance(a.p), TRUE) ELSE Val(a.p, FALSE)
        : a \in {at(p, kind)} })

\* eprintln!: a line written to stderr
eprintln(p, line) == IF Unwinding(p) THEN p ELSE [p EXCEPT !.stderr = Append(@, line)]

expect(p, kind) ==
  IF Unwinding(p) THEN p
  ELSE
  The({ IF e.r THEN e.p ELSE eprintln(e.p, <<"expected", kind>>)
        : e \in {eat(p, kind)} })

recover_with_error(p, error) ==
  IF Unwinding(p) THEN p
  ELSE
  The({ close(eprintln(o.p, <<error>>), o.m, "ErrorTree").p : o \in {open(p)} })

\* a slip: the token taken without the test for the end of the tokens
advance_with_error_unchecked(p, error) ==
  IF Unwinding(p) THEN p
  ELSE
  The({ close(Parser_advance(eprintln(o.p, <<error>>)), o.m, "ErrorTree").p
        : o \in {open(p)} })

advance_with_error(p, error) ==
  IF Unwinding(p) THEN p
  ELSE
  The({ close(IF ~eof(o.p) THEN Parser_advance(eprintln(o.p, <<error>>))
              ELSE eprintln(o.p, <<error>>),
              o.m, "ErrorTree").p
        : o \in {open(p)} })

\* p.at(kind) || p.eof()
at_or_eof(p, kind) ==
  IF Unwinding(p) THEN Val(p, FALSE)
  ELSE
  The({ IF a.r THEN a ELSE Val(a.p, eof(a.p)) : a \in {at(p, kind)} })

\* Handles semicolon and eof
end_of_statement(p) ==
  IF Unwinding(p) THEN Val(p, FALSE)
  ELSE
  The({ IF a.r THEN a ELSE at_or_eof(a.p, "Semicolon")
        : a \in {at(p, "ClosingRoundBracket")} })

\* self.nth_text(0).eq_ignore_ascii_case(keyword.as_str())
text_is_keyword(p, keyword) ==
  IF Unwinding(p) THEN Val(p, FALSE)
  ELSE
  The({ Val(t.p, ~Unwinding(t.p) /\ eq_ignore_ascii_case(t.r, as_str(keyword)))
        : t \in {nth_text(p, 0)} })

at_keyword(p, keyword) ==
  IF Unwinding(p) THEN Val(p, FALSE)
  ELSE
  The({ IF ~Unwinding(n.p) /\ n.r = "BareWord" THEN text_is_keyword(n.p, keyword)
        ELSE Val(n.p, FALSE)
        : n \in {nth(p, 0)} })

eat_keyword(p, keyword) ==
  IF Unwinding(p) THEN Val(p, FALSE)
  ELSE
  The({ IF a.r THEN Val(Parser_advance(a.p), TRUE) ELSE Val(a.p, FALSE)
        : a \in {at_keyword(p, keyword)} })

expect_keyword(p, keyword) ==
  IF Unwinding(p) THEN p
  ELSE
  The({ IF e.r THEN e.p ELSE eprintln(e.p, <<"expected", keyword>>)
        : e \in {eat_keyword(p, keyword)} })

RECURSIVE at_keyword_of(_, _)
\* at_keyword(k1) || at_keyword(k2) || ... over the keywords given in order
at_keyword_of(p, keywords) ==
  IF keywords = <<>> THEN Val(p, FALSE)
  ELSE The({ IF a.r THEN a ELSE at_keyword_of(a.p, Tail(keywords))
             : a \in {at_keyword(p, Head(keywords))} })

(***************************************************************************)
(* The grammar (src/parser/parsers/select.rs, expression.rs,               *)
(* column_type.rs).  A while loop is a recursive operator on the parser    *)
(* (and the loop's locals); it ends at once when the parser is unwinding.  *)
(***************************************************************************)
RECURSIVE parse_select_statement(_), column_list_loop(_, _),
          parse_expression_rec(_, _), call_loop(_, _), binary_loop(_, _, _),
          expr_delimited(_), dot_loop(_), comma_loop(_, _),
          arg_list_loop(_, _), parse_column_type(_), type_comma_loop(_)

\* Finds the end of a WITH or a SELECT
at_end_of_column_list(p) ==
  at_keyword_of(p, <<"Select", "From", "Where", "Order", "Limit">>)

at_select_statement(p) == at_keyword_of(p, <<"With", "Select", "From">>)

parse_expression(p) == parse_expression_rec(p, "EndOfStream")

\* right_binds_tighter's precedence table, loosest level first
PrecedenceTable ==
  << {"And", "Or"},
     {"GreaterOrEquals", "LessOrEquals"},
     {"Equals", "NotEquals"},
     {"Greater", "Less"},
     {"Plus", "Minus"},
     {"Asterisk", "Slash"} >>

\* the level of kind in the table counted from 0, -1 for None
tightness(kind) ==
  IF \E l \in 1..Len(PrecedenceTable) : kind \in PrecedenceTable[l]
  THEN (CHOOSE l \in 1..Len(PrecedenceTable) : kind \in PrecedenceTable[l]) - 1
  ELSE -1

\* a slip: an operator of the same level taken to bind tighter
right_binds_tighter_or_equal(left, right) ==
  /\ tightness(right) # -1
  /\ (tightness(left) = -1 \/ tightness(right) >= tightness(left))

right_binds_tighter(left, right) ==
  /\ tightness(right) # -1
  /\ (tightness(left) = -1 \/ tightness(right) > tightness(left))

\* right_binds_tighter's assert_eq!(left, TokenKind::EndOfStream) fails
left_assertion_fails(left, right) ==
  tightness(right) # -1 /\ tightness(left) = -1 /\ left # "EndOfStream"

TableNameKinds == {"BareWord", "QuotedIdentifier"}

\* a slip: the error after the dot recorded without skipping a token
table_after_dot_skipping_nothing(p) ==
  IF Unwinding(p) THEN p
  ELSE
  The({ IF a.r THEN Parser_advance(a.p)
        ELSE recover_with_error(a.p, "Expected table name after dot")
        : a \in {at_any(p, TableNameKinds)} })

\* parse_table_reference, lines 150-154: the name after the dot
table_after_dot(p) ==
  IF Unwinding(p) THEN p
  ELSE
  The({ IF a.r THEN Parser_advance(a.p)
        ELSE advance_with_error(a.p, "Expected table name after dot")
        : a \in {at_any(p, TableNameKinds)} })

\* parse_table_reference, lines 147-155: the optional database.table notation
table_dot(p) ==
  IF Unwinding(p) THEN p
  ELSE
  The({ IF dot.r THEN table_after_dot(Parser_advance(dot.p)) ELSE dot.p
        : dot \in {at(p, "Dot")} })

\* parse_table_reference, lines 142-158
table_name(p) ==
  IF Unwinding(p) THEN p
  ELSE
  The({ IF a.r THEN table_dot(Parser_advance(a.p))
        ELSE advance_with_error(a.p, "Expected table reference")
        : a \in {at_any(p, TableNameKinds)} })

parse_table_reference(p) ==
  IF Unwinding(p) THEN p
  ELSE
  The({ close(table_name(o.p), o.m, "TableIdentifier").p : o \in {open(p)} })

\* a slip: the trivia after FROM skipped before the table reference is opened
parse_from_clause_with_trivia(p) ==
  IF Unwinding(p) THEN p
  ELSE
  The({ close(parse_table_reference(skip_trivia(expect_keyword(o.p, "From"))),
              o.m, "FromClause").p
        : o \in {open(p)} })

parse_from_clause(p) ==
  IF Unwinding(p) THEN p
  ELSE
  The({ close(parse_table_reference(expect_keyword(o.p, "From")), o.m, "FromClause").p
        : o \in {open(p)} })

\* parse_column_list, lines 105-107: the condition of the alias
at_column_alias(p) ==
  IF Unwinding(p) THEN Val(p, FALSE)
  ELSE
  The({ IF as.r THEN as
        ELSE The({ IF end.r THEN at(end.p, "QuotedIdentifier")
                   ELSE The({ IF bare.r THEN bare
                              ELSE at(bare.p, "QuotedIdentifier")
                              : bare \in {at(end.p, "BareWord")} })
                   : end \in {at_end_of_column_list(as.p)} })
        : as \in {at_keyword(p, "As")} })

\* parse_column_list, lines 110-112
optional_as(p) ==
  IF Unwinding(p) THEN p
  ELSE
  The({ IF as.r THEN expect_keyword(as.p, "As") ELSE as.p
        : as \in {at_keyword(p, "As")} })

\* parse_column_list, lines 114-118
alias_name(p) ==
  IF Unwinding(p) THEN p
  ELSE
  The({ IF ~end.r THEN Parser_advance(end.p)
        ELSE recover_with_error(end.p, "Expected column alias")
        : end \in {at_end_of_column_list(p)} })

\* parse_column_list, lines 109-120
alias_node(p) ==
  IF Unwinding(p) THEN p
  ELSE
  The({ close(alias_name(optional_as(o.p)), o.m, "ColumnAlias").p : o \in {open(p)} })

\* parse_column_list, lines 105-121: the alias after a column expression
column_alias(p) ==
  IF Unwinding(p) THEN p
  ELSE
  The({ IF cond.r THEN alias_node(cond.p) ELSE cond.p : cond \in {at_column_alias(p)} })

\* parse_column_list, line 97: the condition of the while loop
in_column_list(p) ==
  IF Unwinding(p) THEN Val(p, FALSE)
  ELSE
  The({ IF end.r THEN Val(end.p, FALSE)
        ELSE The({ Val(eos.p, ~eos.r) : eos \in {end_of_statement(end.p)} })
        : end \in {at_end_of_column_list(p)} })

\* the while loop of parse_column_list
column_list_loop(p, first) ==
  IF Unwinding(p) THEN p
  ELSE The({ IF ~c.r THEN c.p
             ELSE column_list_loop(
                    column_alias(parse_expression(
                      IF ~first THEN expect(c.p, "Comma") ELSE c.p)),
                    FALSE)
             : c \in {in_column_list(p)} })

\* Parse a comma-separated list of column expressions
parse_column_list(p) ==
  IF Unwinding(p) THEN p
  ELSE
  The({ close(column_list_loop(o.p, TRUE), o.m, "ColumnList").p : o \in {open(p)} })

parse_with_clause(p) ==
  IF Unwinding(p) THEN p
  ELSE
  The({ close(parse_column_list(expect_keyword(o.p, "With")), o.m, "WithClause").p
        : o \in {open(p)} })

parse_select_clause(p) ==
  IF Unwinding(p) THEN p
  ELSE
  The({ close(parse_column_list(expect_keyword(o.p, "Select")), o.m, "SelectClause").p
        : o \in {open(p)} })

\* parse_select_statement, lines 10-12
optional_with(p) ==
  IF Unwinding(p) THEN p
  ELSE
  The({ IF with.r THEN parse_with_clause(with.p) ELSE with.p
        : with \in {at_keyword(p, "With")} })

\* parse_select_statement, lines 14-18: the value is parsed_early_from
early_from(p) ==
  IF Unwinding(p) THEN Val(p, FALSE)
  ELSE
  The({ IF from.r THEN Val(parse_from_clause(from.p), TRUE) ELSE Val(from.p, FALSE)
        : from \in {at_keyword(p, "From")} })

\* a slip: every FROM after the select clause flagged as a duplicate
late_from_always_flagged(p, parsed_early_from) ==
  IF Unwinding(p) THEN p
  ELSE
  The({ IF from.r
        THEN recover_with_error(parse_from_clause(from.p), "Duplicate FROM clause")
        ELSE from.p
        : from \in {at_keyword(p, "From")} })

\* parse_select_statement, lines 22-28
late_from(p, parsed_early_from) ==
  IF Unwinding(p) THEN p
  ELSE
  The({ IF from.r
        THEN IF parsed_early_from
             THEN recover_with_error(parse_from_clause(from.p), "Duplicate FROM clause")
             ELSE parse_from_clause(from.p)
        ELSE from.p
        : from \in {at_keyword(p, "From")} })

\* parse_select_statement, lines 31-34
where_node(p) ==
  IF Unwinding(p) THEN p
  ELSE
  The({ close(parse_expression(expect_keyword(o.p, "Where")), o.m, "WhereClause").p
        : o \in {open(p)} })

\* parse_select_statement, lines 30-35
where_clause(p) ==
  IF Unwinding(p) THEN p
  ELSE
  The({ IF where.r THEN where_node(where.p) ELSE where.p
        : where \in {at_keyword(p, "Where")} })

\* parse_select_statement, lines 41-43
order_by_item(p) ==
  IF Unwinding(p) THEN p
  ELSE
  The({ close(parse_expression(o.p), o.m, "OrderByItem").p : o \in {open(p)} })

\* parse_select_statement, lines 38-44
order_by_node(p) ==
  IF Unwinding(p) THEN p
  ELSE
  The({ close(order_by_item(expect_keyword(expect_keyword(o.p, "Order"), "By")),
              o.m, "OrderByClause").p
        : o \in {open(p)} })

\* parse_select_statement, lines 37-45
order_by_clause(p) ==
  IF Unwinding(p) THEN p
  ELSE
  The({ IF order.r THEN order_by_node(order.p) ELSE order.p
        : order \in {at_keyword(p, "Order")} })

\* parse_select_statement, lines 48-51
limit_node(p) ==
  IF Unwinding(p) THEN p
  ELSE
  The({ close(parse_expression(expect_keyword(o.p, "Limit")), o.m, "LimitClause").p
        : o \in {open(p)} })

\* parse_select_statement, lines 47-52
limit_clause(p) ==
  IF Unwinding(p) THEN p
  ELSE
  The({ IF limit.r THEN limit_node(limit.p) ELSE limit.p
        : limit \in {at_keyword(p, "Limit")} })

\* the locals m and parsed_early_from of a call of parse_select_statement,
\* and p
SelectStatement(p, m, parsed_early_from) ==
  [p |-> p, m |-> m, parsed_early_from |-> parsed_early_from]

\* the statements of parse_select_statement after let m = p.open(), in order
SelectStatementSteps ==
  <<"with", "early_from", "select_clause", "late_from", "where", "order_by",
    "limit", "close">>

\* one statement of parse_select_statement run in the call f
select_statement_step(f, step) ==
  IF Unwinding(f.p) THEN f
  ELSE CASE step = "with" -> [f EXCEPT !.p = optional_with(@)]
         [] step = "early_from" ->
              The({ SelectStatement(e.p, f.m, e.r) : e \in {early_from(f.p)} })
         [] step = "select_clause" -> [f EXCEPT !.p = parse_select_clause(@)]
         [] step = "late_from" -> [f EXCEPT !.p = late_from(@, f.parsed_early_from)]
         [] step = "where" -> [f EXCEPT !.p = where_clause(@)]
         [] step = "order_by" -> [f EXCEPT !.p = order_by_clause(@)]
         [] step = "limit" -> [f EXCEPT !.p = limit_clause(@)]
         [] step = "close" -> [f EXCEPT !.p = close(@, f.m, "SelectStatement").p]

RECURSIVE select_statement_from(_, _)
\* the statements of parse_select_statement from the k-th on
select_statement_from(f, k) ==
  IF Unwinding(f.p) \/ k > Len(SelectStatementSteps) THEN f.p
  ELSE select_statement_from(select_statement_step(f, SelectStatementSteps[k]), k + 1)

parse_select_statement(p) ==
  IF Unwinding(p) THEN p
  ELSE
  The({ select_statement_from(SelectStatement(o.p, o.m, FALSE), 1) : o \in {open(p)} })

\* An Option<MarkClosed>: Some(m), or None
Some(p, m) == [p |-> p, some |-> TRUE, m |-> m]
None(p) == [p |-> p, some |-> FALSE, m |-> 0]

\* expr_delimited's arms for Asterisk, StringLiteral and Number
literal(p, kind) ==
  IF Unwinding(p) THEN Mark(p, 0)
  ELSE
  The({ close(Parser_advance(o.p), o.m, kind) : o \in {open(p)} })

\* the while loop of expr_delimited's arm for identifiers
dot_loop(p) ==
  IF Unwinding(p) THEN p
  ELSE The({ IF dot.r /\ ~eof(dot.p)
             THEN dot_loop(expr_delimited(Parser_advance(dot.p)).p)
             ELSE dot.p
             : dot \in {at(p, "Dot")} })

\* expr_delimited, lines 93-103: the parser after the column identifier
column_name(p) ==
  IF Unwinding(p) THEN p
  ELSE
  The({ IF ~end.r THEN dot_loop(Parser_advance(end.p))
        ELSE recover_with_error(end.p, "Expected column identifier")
        : end \in {at_end_of_column_list(p)} })

\* expr_delimited, lines 90-103: m is the mark opened for the arm
subquery_or_column(p, m) ==
  IF Unwinding(p) THEN Mark(p, m)
  ELSE
  The({ IF select.r
        THEN close(parse_select_statement(select.p), m, "SubqueryExpression")
        ELSE close(column_name(select.p), m, "ColumnReference")
        : select \in {at_select_statement(p)} })

\* expr_delimited's arm for BareWord and QuotedIdentifier
identifier(p) ==
  IF Unwinding(p) THEN Mark(p, 0)
  ELSE
  The({ subquery_or_column(o.p, o.m) : o \in {open(p)} })

\* the while loops of expr_delimited's arms for brackets: the value is the
\* parser and the number i of expressions after commas
comma_loop(p, i) ==
  IF Unwinding(p) THEN Val(p, i)
  ELSE The({ IF comma.r /\ ~eof(comma.p)
             THEN comma_loop(parse_expression(Parser_advance(comma.p)), i + 1)
             ELSE Val(comma.p, i)
             : comma \in {at(p, "Comma")} })

\* expr_delimited, lines 108-121: the expressions, the bracket and the close
tuple_or_expression(p, m) ==
  IF Unwinding(p) THEN Mark(p, m)
  ELSE
  The({ close(expect(l.p, "ClosingRoundBracket"), m,
              IF l.r > 0 THEN "TupleExpression" ELSE "Expression")
        : l \in {comma_loop(parse_expression(p), 0)} })

\* expr_delimited's arm for OpeningRoundBracket
parenthesized(p) ==
  IF Unwinding(p) THEN Mark(p, 0)
  ELSE
  The({ tuple_or_expression(expect(o.p, "OpeningRoundBracket"), o.m)
        : o \in {open(p)} })

\* expr_delimited's arm for OpeningSquareBracket
bracketed(p) ==
  IF Unwinding(p) THEN Mark(p, 0)
  ELSE
  The({ close(expect(comma_loop(parse_expression(
                       expect(o.p, "OpeningSquareBracket")), 0).p,
                     "ClosingSquareBracket"),
              o.m, "ArrayExpression")
        : o \in {open(p)} })

\* expr_delimited, lines 141-144
cast(p, result) ==
  IF Unwinding(p) THEN Some(p, result)
  ELSE
  The({ Some(close(parse_column_type(expect(ob.p, "DoubleColon")),
                   ob.m, "CastExpression").p,
             ob.m)
        : ob \in {open_before(p, result)} })

\* expr_delimited, lines 140-147: the cast after a primary
cast_suffix(p, result) ==
  IF Unwinding(p) THEN Some(p, result)
  ELSE
  The({ IF colons.r THEN cast(colons.p, result) ELSE Some(colons.p, result)
        : colons \in {at(p, "DoubleColon")} })

\* expr_delimited, lines 72-138: the match on the kind of the next token
primary(p, kind) ==
  CASE kind = "Asterisk" -> literal(p, "Asterisk")
    [] kind = "StringLiteral" -> literal(p, "StringLiteral")
    [] kind = "Number" -> literal(p, "NumberLiteral")
    [] kind \in {"BareWord", "QuotedIdentifier"} -> identifier(p)
    [] kind = "OpeningRoundBracket" -> parenthesized(p)
    [] kind = "OpeningSquareBracket" -> bracketed(p)

PrimaryKinds ==
  {"Asterisk", "StringLiteral", "Number", "BareWord", "QuotedIdentifier",
   "OpeningRoundBracket", "OpeningSquareBracket"}

\* expr_delimited, lines 72-147, after p.nth(0)
primary_and_cast(p, kind) ==
  IF Unwinding(p) \/ kind \notin PrimaryKinds THEN None(p)
  ELSE The({ cast_suffix(result.p, result.m) : result \in {primary(p, kind)} })

expr_delimited(p) ==
  IF Unwinding(p) THEN None(p)
  ELSE
  The({ primary_and_cast(n.p, n.r) : n \in {nth(p, 0)} })

arg_closed(p, m) ==
  IF Unwinding(p) THEN p
  ELSE
  The({ IF arrow.r
        THEN close(parse_expression(Parser_advance(arrow.p)), m, "LambdaExpression").p
        ELSE close(arrow.p, m, "Expression").p
        : arrow \in {at(p, "Arrow")} })

arg(p) ==
  IF Unwinding(p) THEN p
  ELSE
  The({ arg_closed(parse_expression(o.p), o.m) : o \in {open(p)} })

\* the while loop of arg_list
arg_list_loop(p, first) ==
  IF Unwinding(p) THEN p
  ELSE The({ IF ~bracket.r /\ ~eof(bracket.p)
             THEN arg_list_loop(
                    arg(IF ~first THEN expect(bracket.p, "Comma") ELSE bracket.p),
                    FALSE)
             ELSE bracket.p
             : bracket \in {at(p, "ClosingRoundBracket")} })

arg_list(p) ==
  IF Unwinding(p) THEN p
  ELSE
  The({ close(expect(arg_list_loop(expect(o.p, "OpeningRoundBracket"), TRUE),
                     "ClosingRoundBracket"),
              o.m, "ExpressionList").p
        : o \in {open(p)} })

\* a slip: the FunctionCall opened at the bracket, not before the callee
function_call_without_callee(p, lhs) ==
  IF Unwinding(p) THEN Mark(p, lhs)
  ELSE
  The({ close(arg_list(o.p), o.m, "FunctionCall") : o \in {open(p)} })

\* parse_expression_rec, lines 21-23
function_call(p, lhs) ==
  IF Unwinding(p) THEN Mark(p, lhs)
  ELSE
  The({ close(arg_list(ob.p), ob.m, "FunctionCall") : ob \in {open_before(p, lhs)} })

\* the first loop of parse_expression_rec: the call suffixes
call_loop(p, lhs) ==
  IF Unwinding(p) THEN Mark(p, lhs)
  ELSE The({ IF bracket.r
             THEN The({ call_loop(c.p, c.m) : c \in {function_call(bracket.p, lhs)} })
             ELSE Mark(bracket.p, lhs)
             : bracket \in {at(p, "OpeningRoundBracket")} })

\* parse_expression_rec, lines 30-34: the kind of a keyword operator
keyword_operator(p, right) ==
  IF Unwinding(p) THEN Val(p, right)
  ELSE
  The({ IF and.r THEN Val(and.p, "And")
        ELSE The({ IF or.r THEN Val(or.p, "Or") ELSE Val(or.p, right)
                   : or \in {at_keyword(and.p, "Or")} })
        : and \in {at_keyword(p, "And")} })

\* parse_expression_rec, lines 27-34: the value is right
right_operator(p) ==
  IF Unwinding(p) THEN Val(p, "EndOfStream")
  ELSE
  The({ keyword_operator(n.p, n.r) : n \in {nth(p, 0)} })

\* parse_expression_rec, lines 37-40
binary_expression(p, lhs, right) ==
  IF Unwinding(p) THEN Mark(p, lhs)
  ELSE
  The({ close(parse_expression_rec(Parser_advance(ob.p), right),
              ob.m, "BinaryExpression")
        : ob \in {open_before(p, lhs)} })

\* the second loop of parse_expression_rec: the binary operators
binary_loop(p, lhs, left) ==
  IF Unwinding(p) THEN p
  ELSE The({ IF Unwinding(right.p) THEN right.p
             ELSE IF left_assertion_fails(left, right.r)
             THEN Panic(right.p, "assertion left == right failed")
             ELSE IF right_binds_tighter(left, right.r)
             THEN The({ binary_loop(c.p, c.m, left)
                        : c \in {binary_expression(right.p, lhs, right.r)} })
             ELSE right.p
             : right \in {right_operator(p)} })

\* parse_expression_rec, lines 20-44: the two loops
suffixes(p, lhs, left) ==
  IF Unwinding(p) THEN p
  ELSE
  The({ binary_loop(c.p, c.m, left) : c \in {call_loop(p, lhs)} })

parse_expression_rec(p, left) ==
  IF Unwinding(p) THEN p
  ELSE
  The({ IF ~d.some THEN advance_with_error(d.p, "Expected expression")
        ELSE suffixes(d.p, d.m, left)
        : d \in {expr_delimited(p)} })

\* the while loop of parse_column_type
type_comma_loop(p) ==
  IF Unwinding(p) THEN p
  ELSE The({ IF comma.r /\ ~eof(comma.p)
             THEN type_comma_loop(parse_column_type(expect(comma.p, "Comma")))
             ELSE comma.p
             : comma \in {at(p, "Comma")} })

\* parse_column_type, lines 15-25
type_parameters_node(p) ==
  IF Unwinding(p) THEN p
  ELSE
  The({ close(expect(type_comma_loop(parse_column_type(
                       expect(o.p, "OpeningRoundBracket"))),
                     "ClosingRoundBracket"),
              o.m, "DataTypeParameters").p
        : o \in {open(p)} })

\* parse_column_type, lines 14-26: the parameters of the type
type_parameters(p) ==
  IF Unwinding(p) THEN p
  ELSE
  The({ IF bracket.r THEN type_parameters_node(bracket.p) ELSE bracket.p
        : bracket \in {at(p, "OpeningRoundBracket")} })

\* parse_column_type, lines 8-12
type_name(p) ==
  IF Unwinding(p) THEN p
  ELSE
  The({ IF bare.r THEN Parser_advance(bare.p)
        ELSE advance_with_error(bare.p, "Expected type for cast operator")
        : bare \in {at(p, "BareWord")} })

parse_column_type(p) ==
  IF Unwinding(p) THEN p
  ELSE
  The({ close(type_parameters(type_name(o.p)), o.m, "DataType").p : o \in {open(p)} })

\* parse_sql, lines 250-252
optional_semicolon(p) ==
  IF Unwinding(p) THEN p
  ELSE
  The({ IF semicolon.r THEN expect(semicolon.p, "Semicolon") ELSE semicolon.p
        : semicolon \in {at(p, "Semicolon")} })

(***************************************************************************)
(* Tree (src/parser/tree.rs) and Parser::build_tree                        *)
(***************************************************************************)
Tree(kind, children) == [kind |-> kind, children |-> children]
ChildToken(token) == [tag |-> "Token", val |-> token]
ChildTree(tree) == [tag |-> "Tree", val |-> tree]
NoTree == Tree("NoTree", <<>>)

\* a slip: the child put before its siblings
push_child_first(stack, child) ==
  [stack EXCEPT ![Len(stack)].children = <<child>> \o @]

\* stack.last_mut().unwrap().children.push(child)
push_child(stack, child) ==
  [stack EXCEPT ![Len(stack)].children = Append(@, child)]

\* build_tree's locals: the events and the tokens not yet taken, the stack
Builder(events, tokens, stack) ==
  [events |-> events, tokens |-> tokens, stack |-> stack, panic |-> NoPanic]

\* build_tree, lines 47-60: the body of the loop, for the first event left
build_event(b) ==
  IF Head(b.events).type = "Open"
  THEN [b EXCEPT !.events = Tail(@),
                 !.stack = Append(@, Tree(Head(b.events).kind, <<>>))]
  ELSE IF Head(b.events).type = "Close"
  THEN IF Len(b.stack) < 2
       THEN [b EXCEPT !.panic = "called Option::unwrap() on a None value"]
       ELSE [b EXCEPT !.events = Tail(@),
                      !.stack = push_child(SubSeq(@, 1, Len(@) - 1),
                                           ChildTree(@[Len(@)]))]
  ELSE IF b.tokens = <<>> \/ b.stack = <<>>
  THEN [b EXCEPT !.panic = "called Option::unwrap() on a None value"]
  ELSE [b EXCEPT !.events = Tail(@), !.tokens = Tail(@),
                 !.stack = push_child(@, ChildToken(Head(b.tokens)))]

\* build_tree, lines 63-66, after the loop: the tree, or the panic
pop_tree(b) ==
  IF b.stack = <<>> THEN "called Option::unwrap() on a None value"
  ELSE IF Len(b.stack) # 1 THEN "assertion failed: stack.is_empty()"
  ELSE IF b.tokens # <<>> THEN "assertion failed: tokens.next().is_none()"
  ELSE NoPanic

(***************************************************************************)
(* Tree::print (src/parser/tree.rs, lines 183-200).  The buffer is the     *)
(* sequence of what has been written to it: the characters of the indents, *)
(* of the quotes, of the texts of the tokens and of the ends of the lines, *)
(* and for {:?} of a kind the name of the kind.                            *)
(***************************************************************************)
\* "  ".repeat(level)
indent(level) == [k \in 1..2 * level |-> " "]

Buffer(buf) == [buf |-> buf, panic |-> NoPanic]

\* format_to!(buf, "{indent}  '{}'\n", token.text)
print_token(b, token, level) ==
  [b EXCEPT !.buf = @ \o indent(level) \o <<" ", " ", "'">> \o token.text \o <<"'", "\n">>]

\* a slip: the comments left out as the whitespace is
skips_trivia(token) == token.kind \in {"Whitespace", "Comment"}

\* if token.kind == TokenKind::Whitespace { continue; }
skips_token(token) == token.kind = "Whitespace"

\* assert!(buf.ends_with('\n'))
print_assert(b) ==
  IF b.panic # NoPanic THEN b
  ELSE IF b.buf = <<>> \/ b.buf[Len(b.buf)] # "\n"
       THEN [b EXCEPT !.panic = "assertion failed: buf.ends_with('\\n')"]
       ELSE b

RECURSIVE Tree_print(_, _, _), print_children(_, _, _)
\* for child in &self.children
print_children(children, b, level) ==
  IF children = <<>> \/ b.panic # NoPanic THEN b
  ELSE The({ print_children(Tail(children),
               IF child.tag = "Token"
               THEN (IF skips_token(child.val) THEN b ELSE print_token(b, child.val, level))
               ELSE Tree_print(child.val, b, level + 1),
               level)
             : child \in {Head(children)} })

Tree_print(tree, b, level) ==
  IF b.panic # NoPanic THEN b
  ELSE print_assert(
         print_children(tree.children,
                        [b EXCEPT !.buf = @ \o indent(level) \o <<tree.kind, "\n">>],
                        level))

(***************************************************************************)
(* The analyzer (src/analyzer/analyzer.rs).  An Option<&Child> is the      *)
(* child or NoChild; analyze gives back Ok(()) and drops its QueryState,   *)
(* which the model keeps to tell what had been recorded in it.             *)
(***************************************************************************)
NoChild == [tag |-> "None", val |-> NoTree]

QueryState == [columns |-> <<>>, tables |-> <<>>]

\* children.iter().nth(n)
iter_nth(children, n) == IF n < Len(children) THEN children[n + 1] ELSE NoChild

get_tree_with_kind(child, kind) ==
  IF child.tag = "Tree" /\ child.val.kind = kind THEN child ELSE NoChild

get_token_with_kind(child, kind) ==
  IF child.tag = "Token" /\ child.val.kind = kind THEN child ELSE NoChild

get_first_tree_with_kind(children, target_kind) ==
  IF \E k \in 1..Len(children) : get_tree_with_kind(children[k], target_kind) # NoChild
  THEN children[CHOOSE k \in 1..Len(children) :
                  /\ get_tree_with_kind(children[k], target_kind) # NoChild
                  /\ \A j \in 1..k - 1 : get_tree_with_kind(children[j], target_kind) = NoChild]
  ELSE NoChild

\* analyze_select_statement, lines 69-70
table_name_of(table_identifier) ==
  get_token_with_kind(iter_nth(table_identifier.val.children, 1), "BareWord")

analyze_select_statement(q, t) ==
  IF get_first_tree_with_kind(t.children, "SelectClause") = NoChild THEN q
  ELSE The({
    IF from_clause = NoChild THEN q
    ELSE The({
      IF table_identifier = NoChild THEN q
      ELSE The({
        IF name = NoChild THEN q
        ELSE [q EXCEPT !.tables = Append(@, name.val.text)]
        : name \in {table_name_of(table_identifier)} })
      : table_identifier \in
          {get_tree_with_kind(iter_nth(from_clause.val.children, 1), "TableIdentifier")} })
    : from_clause \in {get_first_tree_with_kind(t.children, "FromClause")} })

RECURSIVE analyze_tree_rec(_, _), analyze_children(_, _)
\* for c in t.children.as_slice() { analyze_child_rec(q, &c); }
analyze_children(q, children) ==
  IF children = <<>> THEN q
  ELSE analyze_children(
         IF Head(children).tag = "Token" THEN q
         ELSE analyze_tree_rec(q, Head(children).val),
         Tail(children))

analyze_tree_rec(q, t) ==
  IF t.kind = "SelectStatement" THEN analyze_select_statement(q, t)
  ELSE analyze_children(q, t.children)

analyze(cst) == analyze_tree_rec(QueryState, cst)

(***************************************************************************)
(* The callers.  input is the text handed to the library, overflow_checks  *)
(* the build's setting, lex the outcome of each tokenizer entry point      *)
(* called so far.  For a call of parse: pc is the statement that runs      *)
(* next, parser the local p, m the mark parse_sql opened, statement the    *)
(* locals of the call of parse_select_statement made by parse_sql, build   *)
(* the locals of build_tree, result what the caller gets.                  *)
(***************************************************************************)
VARIABLES input, overflow_checks, lex, pc, parser, m, statement, build, result,
          out

vars == <<input, overflow_checks, lex, pc, parser, m, statement, build, result, out>>

\* the locals of parse_select_statement before its first statement
NoStatement == [m |-> 0, parsed_early_from |-> FALSE]

MaxLen == 4

\* The characters of the scanned strings, one set per part of the scanner.
LexAlphabets ==
  { {"'", "\"", BackQuote, "\\", "a"},
    {"/", "*", "-", "\n", "'"},
    {"é", "1", ".", "a", " "},
    {"=", "<", ">", "!", "|"} }

StringsOver(A, n) == UNION {[1..k -> A] : k \in 0..n}

RECURSIVE Join(_, _)
\* the words with the separator between them
Join(words, sep) ==
  IF words = <<>> THEN <<>>
  ELSE IF Len(words) = 1 THEN words[1]
  ELSE words[1] \o sep \o Join(Tail(words), sep)

MaxPieces == 4

\* The pieces of the longer scanned strings: comments, decimal numbers, and
\* numbers with a prefix.
LexPieces ==
  { {<<"/", "*">>, <<"*", "/">>, <<"-", "-">>, <<"\n">>, <<"a">>},
    {<<"1">>, <<".">>, <<"e">>, <<"E", "-">>, <<"_">>, <<"$">>},
    {<<"0", "x">>, <<"0", "X">>, <<"F">>, <<"1">>, <<"p">>, <<".">>} }

\* a block comment inside a block comment, then a comment to the end of the line
NestedThenLine ==
  <<"/", "*", "a", "/", "*", "*", "/", "*", "/", "-", "-", "a", "\n", "a">>

\* numbers with an exponent: 1.1E-1 0xFP+ 1e1a
Exponents ==
  <<"1", ".", "1", "E", "-", "1", " ", "0", "x", "F", "P", "+", " ",
    "1", "e", "1", "a">>

\* numbers that a letter or an underscore follows: 1a$ 1.1a x.1_ 0x1g
FollowedByLetters ==
  <<"1", "a", "$", " ", "1", ".", "1", "a", " ", "x", ".", "1", "_", " ",
    "0", "x", "1", "g">>

\* chained tuple access
TupleAccess == <<"x", ".", "1", ".", "1">>

\* numbers with the hex prefix: 0xFF 0X1.Ep1 0xg 0x1e1
HexNumbers ==
  <<"0", "x", "F", "F", " ", "0", "X", "1", ".", "E", "p", "1", " ",
    "0", "x", "g", " ", "0", "x", "1", "e", "1">>

LexSamples == {NestedThenLine, Exponents, FollowedByLetters, TupleAccess, HexNumbers}

LexTexts ==
  UNION {StringsOver(A, MaxLen) : A \in LexAlphabets}
    \cup UNION {{Join(ws, <<>>) : ws \in StringsOver(V, MaxPieces)} : V \in LexPieces}
    \cup LexSamples

\* Inputs within the size limit, and inputs of more than MAX_QUERY_SIZE bytes.
LexInputs ==
  {[text |-> t, pad |-> 0] : t \in LexTexts}
    \cup {[text |-> <<c>>, pad |-> MAX_QUERY_SIZE] : c \in UNION LexAlphabets}

NotCalled == [status |-> "none", tokens |-> <<>>, panic |-> NoPanic]
NoResult == [status |-> "none", tree |-> NoTree, panic |-> NoPanic]
\* out: what the callers of the parser's keyword tests, of Tree::print and of
\* analyze have got
NoOut == [call |-> "none", keyword |-> "", r |-> FALSE, buf |-> <<>>, tables |-> <<>>]

\* What the caller of an entry point gets: the vector, or the panic.
Outcome(r) ==
  IF r.panic # NoPanic
  THEN [status |-> "panicked", tokens |-> <<>>, panic |-> r.panic]
  ELSE [status |-> "returned", tokens |-> r.tokens, panic |-> NoPanic]

InitLex ==
  /\ input \in LexInputs
  /\ overflow_checks \in BOOLEAN
  /\ lex = [tokenize |-> NotCalled, tokenize_with_whitespace |-> NotCalled]
  /\ pc = "not_called"
  /\ parser = Parser_new(<<>>)
  /\ m = 0
  /\ statement = NoStatement
  /\ build = Builder(<<>>, <<>>, <<>>)
  /\ result = NoResult
  /\ out = NoOut

CallTokenize ==
  /\ lex.tokenize.status = "none"
  /\ lex' = [lex EXCEPT !.tokenize =
                Outcome(tokenize(input.text, input.pad, overflow_checks))]
  /\ UNCHANGED <<input, overflow_checks, pc, parser, m, statement, build, result, out>>

CallTokenizeWithWhitespace ==
  /\ lex.tokenize_with_whitespace.status = "none"
  /\ lex' = [lex EXCEPT !.tokenize_with_whitespace =
                Outcome(tokenize_with_whitespace(input.text, input.pad, overflow_checks))]
  /\ UNCHANGED <<input, overflow_checks, pc, parser, m, statement, build, result, out>>

NextLex == CallTokenize \/ CallTokenizeWithWhitespace

SpecLex == InitLex /\ [][NextLex]_vars

(***************************************************************************)
(* The callers of tokenize_up_to                                           *)
(*                                                                         *)
(* lex.tokenize_up_to holds the position passed besides the outcome.  An   *)
(* input of more than MAX_QUERY_SIZE bytes is passed only the positions at *)
(* which the scan reads none of the pad bytes: 0, and 1 when the one       *)
(* enumerated character is a token whatever follows it.                    *)
(***************************************************************************)
UpToAlphabets ==
  { {"/", "*", "-", "\n", "a"},
    {"é", "1", ".", "a", " "} }

UpToInputs ==
  {[text |-> t, pad |-> 0] : t \in UNION {StringsOver(A, MaxLen) : A \in UpToAlphabets}}
    \cup {[text |-> <<c>>, pad |-> MAX_QUERY_SIZE] : c \in UNION UpToAlphabets}

UpToPositions ==
  IF input.pad = 0 THEN 0..(str_len(input.text) + 1)
  ELSE IF input.text[1] \in {"*", "."} THEN {0, 1}
  ELSE {0}

NotCalledUpTo == [status |-> "none", tokens |-> <<>>, panic |-> NoPanic, position |-> 0]

InitUpTo ==
  /\ input \in UpToInputs
  /\ overflow_checks \in BOOLEAN
  /\ lex = [tokenize |-> NotCalled, tokenize_up_to |-> NotCalledUpTo]
  /\ pc = "not_called"
  /\ parser = Parser_new(<<>>)
  /\ m = 0
  /\ statement = NoStatement
  /\ build = Builder(<<>>, <<>>, <<>>)
  /\ result = NoResult
  /\ out = NoOut

CallTokenizeUpTo ==
  /\ lex.tokenize_up_to.status = "none"
  /\ \E position \in UpToPositions :
       \E r \in {Outcome(tokenize_up_to(input.text, input.pad, overflow_checks, position))} :
         lex' = [lex EXCEPT !.tokenize_up_to =
                   [status |-> r.status, tokens |-> r.tokens, panic |-> r.panic,
                    position |-> position]]
  /\ UNCHANGED <<input, overflow_checks, pc, parser, m, statement, build, result, out>>

NextUpTo == CallTokenize \/ CallTokenizeUpTo

SpecUpTo == InitUpTo /\ [][NextUpTo]_vars

(***************************************************************************)
(* A call of parse(text) (src/parser/parser.rs, lines 234-258), one action *)
(* per statement of parse, of parse_sql, of the parse_select_statement it  *)
(* calls and of build_tree, and one per iteration of their loops.  The    *)
(* texts are words joined by a separator: every sequence of at most        *)
(* MaxWords words of one vocabulary, the two-operator expressions, a few   *)
(* texts the scanner stops on, and statements of several clauses.          *)
(***************************************************************************)
MaxWords == 3

SELECT == <<"S", "E", "L", "E", "C", "T">>
FROM == <<"f", "r", "o", "m">>
AS == <<"A", "S">>
AND == <<"A", "N", "D">>
OR == <<"o", "r">>
Space == <<" ">>
BlockComment == <<"/", "*", "c", "*", "/">>
LineComment == <<"-", "-", "c", "\n">>

Vocabularies ==
  { {SELECT, FROM, AS, <<"a">>, <<",">>, <<";">>},
    {SELECT, <<"a">>, <<"(">>, <<")">>, <<",">>, <<"-", ">">>},
    {SELECT, <<"1">>, <<"[">>, <<"]">>, <<":", ":">>, <<".">>},
    {SELECT, <<"t">>, <<"*">>, <<"'", "s", "'">>, BlockComment, LineComment} }

\* The binary operators as written, by the kind right_binds_tighter sees
OperatorText ==
  [And |-> AND, Or |-> OR,
   GreaterOrEquals |-> <<">", "=">>, LessOrEquals |-> <<"<", "=">>,
   Equals |-> <<"=">>, NotEquals |-> <<"!", "=">>,
   Greater |-> <<">">>, Less |-> <<"<">>,
   Plus |-> <<"+">>, Minus |-> <<"-">>,
   Asterisk |-> <<"*">>, Slash |-> <<"/">>]

Operators == DOMAIN OperatorText
Separators == {Space, BlockComment}

\* SELECT a op1 b op2 c
TwoOperators(op1, op2, sep) ==
  Join(<<SELECT, <<"a">>, OperatorText[op1], <<"b">>, OperatorText[op2], <<"c">>>>, sep)

WHERE == <<"W", "H", "E", "R", "E">>

\* statements of several clauses, word by word
Statements ==
  { <<SELECT, <<"x">>, FROM, <<"t">>>>,
    <<FROM, <<"t">>, SELECT, <<"x">>>>,
    <<FROM, <<"a">>, SELECT, <<"x">>, FROM, <<"b">>>>,
    <<FROM, <<"t">>>>,
    <<SELECT, <<"a">>, AS, <<"b">>, FROM, <<"t">>>>,
    <<SELECT, <<"a">>, AS, <<"\"", "b", "\"">>, <<",">>, <<"c">>>>,
    <<SELECT, <<"a">>, <<"b">>, FROM, <<"t">>>>,
    <<SELECT, <<"a">>, AS, FROM, <<"t">>>>,
    <<SELECT, <<"a">>, AS, <<",">>, <<"b">>>>,
    <<SELECT, <<"a">>, AS, <<";">>, SELECT, <<"b">>>>,
    <<SELECT, <<"a">>, <<",">>, FROM, <<"t">>>>,
    <<SELECT, <<"a">>, <<",">>, <<";">>, SELECT, <<"b">>>>,
    <<SELECT, <<"a">>, <<",">>, WHERE, <<"b">>>>,
    <<SELECT, <<"a">>, <<")">>, <<"b">>>>,
    <<SELECT, <<"a">>, FROM, <<"t">>, <<".">>, <<"1">>, WHERE, <<"b">>>>,
    <<SELECT, <<"a">>, FROM, <<"t">>, <<".">>>>,
    <<SELECT, <<"a">>, FROM, <<"t">>, <<".">>, <<"b">>, WHERE, <<"c">>>>,
    <<FROM, <<"t">>, <<".">>, <<",">>, SELECT, <<"a">>>> }

\* column expressions with casts and calls, token by token
Expressions ==
  { <<<<"x">>, <<":", ":">>, <<"A", "r", "r", "a", "y">>, <<"(">>, <<"I", "n", "t", "6", "4">>, <<")">>>>,
    <<<<"1">>, <<":", ":">>, <<"T">>>>,
    <<<<"(">>, <<"x">>, <<")">>, <<":", ":">>, <<"T">>>>,
    <<<<"f">>, <<"(">>, <<"x">>, <<")">>, <<":", ":">>, <<"T">>>>,
    <<<<"f">>, <<"(">>, <<"a">>, <<")">>, <<"(">>, <<"b">>, <<")">>>>,
    <<<<"f">>, <<"(">>, <<"a">>, <<",">>, <<"b">>, <<"-", ">">>, <<"c">>, <<")">>>>,
    <<<<"f">>, <<"(">>, <<")">>>>,
    <<<<"f">>, <<"(">>, <<"a">>, <<")">>, <<"+">>, <<"b">>>> }

\* what may stand between FROM and the name of the table
TableTrivia ==
  { Space, <<"\n">>, BlockComment, Space \o BlockComment, BlockComment \o Space,
    Space \o BlockComment \o Space, Space \o LineComment,
    Space \o BlockComment \o Space \o BlockComment \o Space }

TableNames == { <<"t">>, <<"m", "y", "_", "t", "a", "b", "l", "e">> }

\* SELECT <columns> FROM <name>
SelectFrom(columns, trivia, name) ==
  SELECT \o Space \o columns \o Space \o FROM \o trivia \o name

ColumnLists == { <<"a">>, <<"a", ",", " ", "b">>, <<"*">> }

ParseSamples ==
  {Join(ws, sep) : ws \in Statements, sep \in Separators}
    \cup {SELECT \o Space \o Join(e, glue) : e \in Expressions,
                                             glue \in Separators \cup {<<>>}}
    \cup {SelectFrom(columns, trivia, name) : columns \in ColumnLists,
                                              trivia \in TableTrivia,
                                              name \in TableNames}

ParseTexts ==
  UNION {{Join(ws, Space) : ws \in StringsOver(V, MaxWords)} : V \in Vocabularies}
    \cup {TwoOperators(op1, op2, sep) : op1 \in Operators, op2 \in Operators,
                                        sep \in Separators}
    \cup {<<"é", "1">>, SELECT \o <<" ", "a", "é", "é">>}
    \cup ParseSamples

ParseInputs ==
  {[text |-> t, pad |-> 0] : t \in ParseTexts}
    \cup {[text |-> SELECT, pad |-> MAX_QUERY_SIZE]}

ParsePanicked(message) == [status |-> "panicked", tree |-> NoTree, panic |-> message]

InitParse ==
  /\ input \in ParseInputs
  /\ overflow_checks \in BOOLEAN
  /\ lex = [tokenize |-> NotCalled, tokenize_with_whitespace |-> NotCalled]
  /\ pc = "tokenize_with_whitespace"
  /\ parser = Parser_new(<<>>)
  /\ m = 0
  /\ statement = NoStatement
  /\ build = Builder(<<>>, <<>>, <<>>)
  /\ result = NoResult
  /\ out = NoOut

\* let tokens = tokenize_with_whitespace(text); let mut p = Parser::new(tokens);
ParseTokenize ==
  /\ pc = "tokenize_with_whitespace"
  /\ \E r \in {Outcome(tokenize_with_whitespace(input.text, input.pad, overflow_checks))} :
       /\ lex' = [lex EXCEPT !.tokenize_with_whitespace = r]
       /\ IF r.status = "panicked"
          THEN /\ pc' = "done"
               /\ result' = ParsePanicked(r.panic)
               /\ UNCHANGED parser
          ELSE /\ pc' = "parse_sql"
               /\ parser' = Parser_new(r.tokens)
               /\ UNCHANGED result
  /\ UNCHANGED <<input, overflow_checks, m, statement, build, out>>

\* The parser after a statement: on a panic parse ends, else it goes on at
\* the statement next.
ParseSqlStep(p, next) ==
  /\ parser' = p
  /\ IF Unwinding(p)
     THEN pc' = "done" /\ result' = ParsePanicked(p.panic)
     ELSE pc' = next /\ UNCHANGED result

\* parse_sql: let m = p.open();
ParseSqlOpen ==
  /\ pc = "parse_sql"
  /\ \E o \in {open(parser)} : m' = o.m /\ ParseSqlStep(o.p, "while")
  /\ UNCHANGED <<input, overflow_checks, lex, statement, build, out>>

\* parse_sql: while !p.eof() { if at_select_statement(p)
ParseSqlWhile ==
  /\ pc = "while"
  /\ ~eof(parser)
  /\ \E a \in {at_select_statement(parser)} :
       ParseSqlStep(a.p, IF a.r THEN "parse_select_statement" ELSE "semicolon")
  /\ UNCHANGED <<input, overflow_checks, lex, m, statement, build, out>>

\* parse_select_statement called by parse_sql: let m = p.open();
ParseSelectOpen ==
  /\ pc = "parse_select_statement"
  /\ \E o \in {open(parser)} :
       /\ statement' = [m |-> o.m, parsed_early_from |-> FALSE]
       /\ ParseSqlStep(o.p, SelectStatementSteps[1])
  /\ UNCHANGED <<input, overflow_checks, lex, m, build, out>>

\* the statement run after step: the next of parse_select_statement, or the
\* one after the call in parse_sql
StepAfter(step) ==
  IF step = SelectStatementSteps[Len(SelectStatementSteps)] THEN "semicolon"
  ELSE SelectStatementSteps[
         1 + CHOOSE k \in 1..Len(SelectStatementSteps) : SelectStatementSteps[k] = step]

\* parse_select_statement called by parse_sql: the statement at pc
ParseSelectStep ==
  /\ \E k \in 1..Len(SelectStatementSteps) : pc = SelectStatementSteps[k]
  /\ \E f \in {select_statement_step(
                  SelectStatement(parser, statement.m, statement.parsed_early_from),
                  pc)} :
       /\ statement' = [m |-> f.m, parsed_early_from |-> f.parsed_early_from]
       /\ ParseSqlStep(f.p, StepAfter(pc))
  /\ UNCHANGED <<input, overflow_checks, lex, m, build, out>>

\* parse_sql: if p.at(TokenKind::Semicolon) { p.expect(TokenKind::Semicolon); }
ParseSqlSemicolon ==
  /\ pc = "semicolon"
  /\ ParseSqlStep(optional_semicolon(parser), "while")
  /\ UNCHANGED <<input, overflow_checks, lex, m, statement, build, out>>

\* parse_sql: p.skip_trivia(); p.close(m, TreeKind::File); after the loop
ParseSqlClose ==
  /\ pc = "while"
  /\ eof(parser)
  /\ ParseSqlStep(close(skip_trivia(parser), m, "File").p, "build_tree")
  /\ UNCHANGED <<input, overflow_checks, lex, m, statement, build, out>>

\* build_tree, lines 41-45: assert!(matches!(events.pop(), Some(Event::Close)))
BuildTreePop ==
  /\ pc = "build_tree"
  /\ IF parser.events = <<>> \/ parser.events[Len(parser.events)].type # "Close"
     THEN /\ pc' = "done"
          /\ result' = ParsePanicked(
               "assertion failed: matches!(events.pop(), Some(Event::Close))")
          /\ UNCHANGED build
     ELSE /\ pc' = "for"
          /\ build' = Builder(SubSeq(parser.events, 1, Len(parser.events) - 1),
                              parser.tokens, <<>>)
          /\ UNCHANGED result
  /\ UNCHANGED <<input, overflow_checks, lex, parser, m, statement, out>>

\* build_tree: an iteration of for event in events
BuildTreeEvent ==
  /\ pc = "for"
  /\ build.events # <<>>
  /\ build' = build_event(build)
  /\ IF build'.panic # NoPanic
     THEN pc' = "done" /\ result' = ParsePanicked(build'.panic)
     ELSE UNCHANGED <<pc, result>>
  /\ UNCHANGED <<input, overflow_checks, lex, parser, m, statement, out>>

\* build_tree, lines 63-66, after the loop
BuildTreeReturn ==
  /\ pc = "for"
  /\ build.events = <<>>
  /\ pc' = "done"
  /\ result' = IF pop_tree(build) # NoPanic THEN ParsePanicked(pop_tree(build))
               ELSE [status |-> "returned", tree |-> build.stack[1], panic |-> NoPanic]
  /\ UNCHANGED <<input, overflow_checks, lex, parser, m, statement, build, out>>

\* lib.rs, lines 19-20: let mut buf = String::new(); cst.print(&mut buf, 0);
CallPrint ==
  /\ pc = "done"
  /\ result.status = "returned"
  /\ \E b \in {Tree_print(result.tree, Buffer(<<>>), 0)} :
       /\ out' = [NoOut EXCEPT !.call = "print", !.buf = b.buf]
       /\ result' = IF b.panic # NoPanic THEN ParsePanicked(b.panic) ELSE result
  /\ pc' = "printed"
  /\ UNCHANGED <<input, overflow_checks, lex, parser, m, statement, build>>

\* lib.rs, line 58: analyze(cst).unwrap();
CallAnalyze ==
  /\ pc = "printed"
  /\ result.status = "returned"
  /\ out' = [out EXCEPT !.call = "analyze", !.r = TRUE,
                        !.tables = analyze(result.tree).tables]
  /\ pc' = "analyzed"
  /\ UNCHANGED <<input, overflow_checks, lex, parser, m, statement, build, result>>

NextParse ==
  \/ ParseTokenize
  \/ ParseSqlOpen
  \/ ParseSqlWhile
  \/ ParseSelectOpen
  \/ ParseSelectStep
  \/ ParseSqlSemicolon
  \/ ParseSqlClose
  \/ BuildTreePop
  \/ BuildTreeEvent
  \/ BuildTreeReturn
  \/ CallPrint
  \/ CallAnalyze

SpecParse == InitParse /\ [][NextParse]_vars

\* parse has been called and has neither returned nor panicked
Running == pc \notin {"done", "printed", "analyzed"}

\* parse runs in one thread that goes on until it returns or panics: as long
\* as it is running it takes the step next.  This is weak fairness of
\* NextParse, written for the steps of build_tree as it is and for NextParse
\* as a whole with Running for the states in which a step can be taken.
SpecParseFair ==
  /\ SpecParse
  /\ WF_vars(BuildTreePop \/ BuildTreeEvent \/ BuildTreeReturn)
  /\ ([]<>(~Running) \/ []<><<NextParse>>_vars)

(***************************************************************************)
(* The keyword tests of the parser, called on the tokens of a text that    *)
(* begins, after trivia or none, with a spelling of a keyword.             *)
(***************************************************************************)
Keywords ==
  {"With", "Select", "From", "Order", "By", "As", "Where", "And", "Or", "Limit"}

to_ascii_lowercase(c) ==
  IF c \in AsciiUpper
  THEN LowerLetters[CHOOSE k \in 1..26 : UpperLetters[k] = c]
  ELSE c

LowerCase(w) == [k \in 1..Len(w) |-> to_ascii_lowercase(w[k])]

\* a keyword in capitals, in small letters, in both, cut short, longer, and
\* in the two kinds of quotes of an identifier
Spellings(keyword) ==
  LET w == as_str(keyword) IN
  { w,
    LowerCase(w),
    <<Head(w)>> \o LowerCase(Tail(w)),
    SubSeq(w, 1, Len(w) - 1),
    w \o <<"s">>,
    <<"\"">> \o w \o <<"\"">>,
    <<BackQuote>> \o LowerCase(w) \o <<BackQuote>> }

KeywordLeads == {<<>>, Space, BlockComment \o Space, Space \o LineComment}
KeywordTrails == {<<>>, <<" ", "a">>, <<",">>}

KeywordTexts ==
  { lead \o w \o trail
    : lead \in KeywordLeads,
      w \in UNION { Spellings(keyword) : keyword \in Keywords },
      trail \in KeywordTrails }

KeywordInputs == {[text |-> t, pad |-> 0] : t \in KeywordTexts}

\* let mut p = Parser::new(tokenize_with_whitespace(text));
InitKeyword ==
  /\ input \in KeywordInputs
  /\ overflow_checks \in BOOLEAN
  /\ \E r \in {Outcome(tokenize_with_whitespace(input.text, input.pad, overflow_checks))} :
       /\ lex = [tokenize |-> NotCalled, tokenize_with_whitespace |-> r]
       /\ parser = Parser_new(r.tokens)
  /\ pc = "keyword"
  /\ m = 0
  /\ statement = NoStatement
  /\ build = Builder(<<>>, <<>>, <<>>)
  /\ result = NoResult
  /\ out = NoOut

\* p.at_keyword(keyword)
CallAtKeyword ==
  /\ pc = "keyword"
  /\ \E keyword \in Keywords :
       \E a \in {at_keyword(parser, keyword)} :
         /\ parser' = a.p
         /\ out' = [NoOut EXCEPT !.call = "at_keyword", !.keyword = keyword, !.r = a.r]
  /\ pc' = "done"
  /\ UNCHANGED <<input, overflow_checks, lex, m, statement, build, result>>

\* p.eat_keyword(keyword)
CallEatKeyword ==
  /\ pc = "keyword"
  /\ \E keyword \in Keywords :
       \E e \in {eat_keyword(parser, keyword)} :
         /\ parser' = e.p
         /\ out' = [NoOut EXCEPT !.call = "eat_keyword", !.keyword = keyword, !.r = e.r]
  /\ pc' = "done"
  /\ UNCHANGED <<input, overflow_checks, lex, m, statement, build, result>>

\* p.expect_keyword(keyword)
CallExpectKeyword ==
  /\ pc = "keyword"
  /\ \E keyword \in Keywords :
       /\ parser' = expect_keyword(parser, keyword)
       /\ out' = [NoOut EXCEPT !.call = "expect_keyword", !.keyword = keyword]
  /\ pc' = "done"
  /\ UNCHANGED <<input, overflow_checks, lex, m, statement, build, result>>

NextKeyword == CallAtKeyword \/ CallEatKeyword \/ CallExpectKeyword

SpecKeyword == InitKeyword /\ [][NextKeyword]_vars

(***************************************************************************)
(* The calls of a grammar rule on the parser, one by one.  A rule keeps    *)
(* the marks it was given in locals and uses them as parse_expression_rec  *)
(* does: it closes the mark it opened last, and opens before a node closed *)
(* in the node it is in.  out.frames are these locals, the innermost node  *)
(* last: the mark of the node (-1 outside of every node), whether it came  *)
(* from open_before, the event log at that call, and the marks of the      *)
(* nodes closed in it.                                                     *)
(***************************************************************************)
MaxEvents == 6
MaxLookaheads == 1

CallTexts == {<<"a", "+">>, <<"a", " ", "+">>, <<" ", "a">>}
CallInputs == {[text |-> t, pad |-> 0] : t \in CallTexts}

Frame(mark, before, events) ==
  [mark |-> mark, before |-> before, events |-> events, closed |-> {}]
NoCalls ==
  [call |-> "none", r |-> FALSE, lookaheads |-> 0, frames |-> <<Frame(-1, FALSE, <<>>)>>]

Top(frames) == frames[Len(frames)]
\* the locals after a call that has taken no mark and given none
Called(name, r, lookaheads) ==
  [out EXCEPT !.call = name, !.r = r, !.lookaheads = @ + lookaheads]

\* let mut p = Parser::new(tokenize_with_whitespace(text));
InitCalls ==
  /\ input \in CallInputs
  /\ overflow_checks \in BOOLEAN
  /\ \E r \in {Outcome(tokenize_with_whitespace(input.text, input.pad, overflow_checks))} :
       /\ lex = [tokenize |-> NotCalled, tokenize_with_whitespace |-> r]
       /\ parser = Parser_new(r.tokens)
  /\ pc = "calls"
  /\ m = 0
  /\ statement = NoStatement
  /\ build = Builder(<<>>, <<>>, <<>>)
  /\ result = NoResult
  /\ out = NoCalls

Calling == pc = "calls" /\ ~Unwinding(parser)
CallsFrame == <<input, overflow_checks, lex, m, statement, build, result>>

\* let m = p.open();
CallOpen ==
  /\ Calling
  /\ Len(parser.events) < MaxEvents
  /\ \E o \in {open(parser)} :
       /\ parser' = o.p
       /\ out' = [out EXCEPT !.call = "open",
                             !.frames = Append(@, Frame(o.m, FALSE, parser.events))]
  /\ UNCHANGED <<pc, CallsFrame>>

\* let m = p.open_before(lhs);
CallOpenBefore ==
  /\ Calling
  /\ Len(parser.events) < MaxEvents
  /\ \E lhs \in Top(out.frames).closed :
       \E o \in {open_before(parser, lhs)} :
         /\ parser' = o.p
         /\ out' = [out EXCEPT
              !.call = "open_before",
              !.frames = Append([@ EXCEPT ![Len(@)].closed = {c \in @ : c < lhs}],
                                Frame(o.m, TRUE, parser.events))]
  /\ UNCHANGED <<pc, CallsFrame>>

\* the kind a rule closes a node with
KindClosed(frame) == IF frame.before THEN "BinaryExpression" ELSE "ColumnReference"

\* let lhs = p.close(m, kind);
CallClose ==
  /\ Calling
  /\ Len(parser.events) < MaxEvents
  /\ Len(out.frames) > 1
  /\ \E c \in {close(parser, Top(out.frames).mark, KindClosed(Top(out.frames)))} :
       /\ parser' = c.p
       /\ out' = [out EXCEPT
            !.call = "close",
            !.frames = [SubSeq(@, 1, Len(@) - 1)
                          EXCEPT ![Len(@) - 1].closed = @ \cup {c.m}]]
  /\ UNCHANGED <<pc, CallsFrame>>

\* p.advance();
CallAdvance ==
  /\ Calling
  /\ Len(parser.events) < MaxEvents
  /\ parser' = Parser_advance(parser)
  /\ out' = Called("advance", FALSE, 0)
  /\ UNCHANGED <<pc, CallsFrame>>

\* p.skip_trivia();
CallSkipTrivia ==
  /\ Calling
  /\ out.lookaheads < MaxLookaheads
  /\ parser' = skip_trivia(parser)
  /\ out' = Called("skip_trivia", FALSE, 1)
  /\ UNCHANGED <<pc, CallsFrame>>

Lookaheads == {0, 1}
KindsAskedFor == {"BareWord", "Plus"}

\* p.nth(lookahead)
CallNth ==
  /\ Calling
  /\ out.lookaheads < MaxLookaheads
  /\ \E lookahead \in Lookaheads :
       \E n \in {nth(parser, lookahead)} :
         /\ parser' = n.p
         /\ out' = Called("nth", FALSE, 1)
  /\ UNCHANGED <<pc, CallsFrame>>

\* p.nth_text(lookahead)
CallNthText ==
  /\ Calling
  /\ out.lookaheads < MaxLookaheads
  /\ \E lookahead \in Lookaheads :
       \E n \in {nth_text(parser, lookahead)} :
         /\ parser' = n.p
         /\ out' = Called("nth_text", FALSE, 1)
  /\ UNCHANGED <<pc, CallsFrame>>

\* p.at(kind)
CallAt ==
  /\ Calling
  /\ out.lookaheads < MaxLookaheads
  /\ \E kind \in KindsAskedFor :
       \E a \in {at(parser, kind)} :
         /\ parser' = a.p
         /\ out' = Called("at", a.r, 1)
  /\ UNCHANGED <<pc, CallsFrame>>

\* p.at_any(kinds)
CallAtAny ==
  /\ Calling
  /\ out.lookaheads < MaxLookaheads
  /\ \E a \in {at_any(parser, KindsAskedFor)} :
       /\ parser' = a.p
       /\ out' = Called("at_any", a.r, 1)
  /\ UNCHANGED <<pc, CallsFrame>>

\* p.eat(kind)
CallEat ==
  /\ Calling
  /\ out.lookaheads < MaxLookaheads
  /\ Len(parser.events) < MaxEvents
  /\ \E kind \in KindsAskedFor :
       \E e \in {eat(parser, kind)} :
         /\ parser' = e.p
         /\ out' = Called("eat", e.r, 1)
  /\ UNCHANGED <<pc, CallsFrame>>

\* p.recover_with_error(error);
CallRecoverWithError ==
  /\ Calling
  /\ Len(parser.events) + 2 <= MaxEvents
  /\ parser' = recover_with_error(parser, "Expected expression")
  /\ out' = [Called("recover_with_error", FALSE, 0)
               EXCEPT !.frames[Len(out.frames)].closed = @ \cup {Len(parser.events)}]
  /\ UNCHANGED <<pc, CallsFrame>>

\* p.advance_with_error(error);
CallAdvanceWithError ==
  /\ Calling
  /\ Len(parser.events) + (IF eof(parser) THEN 2 ELSE 3) <= MaxEvents
  /\ parser' = advance_with_error(parser, "Expected expression")
  /\ out' = [Called("advance_with_error", FALSE, 0)
               EXCEPT !.frames[Len(out.frames)].closed = @ \cup {Len(parser.events)}]
  /\ UNCHANGED <<pc, CallsFrame>>

\* p.build_tree(), which takes the parser: the last call of a rule
CallBuildTree ==
  /\ Calling
  /\ pc' = "build_tree"
  /\ out' = Called("build_tree", FALSE, 0)
  /\ UNCHANGED <<parser, CallsFrame>>

NextCalls ==
  \/ CallOpen
  \/ CallOpenBefore
  \/ CallClose
  \/ CallAdvance
  \/ CallSkipTrivia
  \/ CallNth
  \/ CallNthText
  \/ CallAt
  \/ CallAtAny
  \/ CallEat
  \/ CallRecoverWithError
  \/ CallAdvanceWithError
  \/ CallBuildTree
  \/ BuildTreePop
  \/ BuildTreeEvent
  \/ BuildTreeReturn

SpecCalls == InitCalls /\ [][NextCalls]_vars

(***************************************************************************)
(* The tokenizer's claims                                                  *)
(***************************************************************************)
EntryPoints == {"tokenize", "tokenize_with_whitespace"}
InputLen == str_len(input.text) + input.pad
WithWhitespace == lex.tokenize_with_whitespace

RECURSIVE ConcatText(_)
ConcatText(tokens) ==
  IF tokens = <<>> THEN <<>> ELSE Head(tokens).text \o ConcatText(Tail(tokens))

RECURSIVE CharIndexOf(_, _)
\* The number of characters of text before byte offset off
CharIndexOf(text, off) ==
  IF off <= 0 \/ text = <<>> THEN 0
  ELSE 1 + CharIndexOf(Tail(text), off - len_utf8(Head(text)))

KindsOf(tokens) == [k \in 1..Len(tokens) |-> tokens[k].kind]

\* C2: tokenize and tokenize_with_whitespace never abort, whatever the input,
\* non-ASCII characters included.
C2_TokenizeNeverAborts == \A f \in EntryPoints : lex[f].status # "panicked"

QuoteChars == {"'", "\"", BackQuote}
QuotedKind(q) == IF q = "'" THEN "StringLiteral" ELSE "QuotedIdentifier"
NotClosedKind(q) ==
  CASE q = "'" -> "ErrorSingleQuoteIsNotClosed"
    [] q = "\"" -> "ErrorDoubleQuoteIsNotClosed"
    [] q = BackQuote -> "ErrorBackQuoteIsNotClosed"
NotClosedKinds ==
  {NotClosedKind(q) : q \in QuoteChars} \cup {"ErrorMultilineCommentIsNotClosed"}

RECURSIVE ClosingQuote(_, _, _)
\* The index of the quote character that ends the quoted form whose content
\* starts at index k of text, 0 when there is none: a backslash takes the one
\* character after it with it, a doubled quote is taken as a pair, and the
\* first quote character left over closes.
ClosingQuote(text, k, q) ==
  IF k > Len(text) THEN 0
  ELSE IF text[k] = "\\" THEN ClosingQuote(text, k + 2, q)
  ELSE IF text[k] # q THEN ClosingQuote(text, k + 1, q)
  ELSE IF k < Len(text) /\ text[k + 1] = q THEN ClosingQuote(text, k + 2, q)
  ELSE k

RECURSIVE ClosingComment(_, _, _)
\* The index of the last character of the block comment whose content starts
\* at index k of text with nesting depth depth, 0 when it is not closed.
ClosingComment(text, k, depth) ==
  IF k > Len(text) THEN 0
  ELSE IF k < Len(text) /\ text[k] = "/" /\ text[k + 1] = "*"
  THEN ClosingComment(text, k + 2, depth + 1)
  ELSE IF k < Len(text) /\ text[k] = "*" /\ text[k + 1] = "/"
  THEN IF depth = 1 THEN k + 1 ELSE ClosingComment(text, k + 2, depth - 1)
  ELSE ClosingComment(text, k + 1, depth)

\* The index in the input of the first character of token t
FirstChar(t) == CharIndexOf(input.text, t.start) + 1

\* C9: a quoted token ends at the first occurrence of its quote character that
\* is neither escaped by a backslash nor the first half of a doubled quote; a
\* backslash escapes only the one character after it.
C9_QuotedTokenEnd ==
  WithWhitespace.status = "returned" =>
    \A k \in 1..Len(WithWhitespace.tokens) :
      LET t == WithWhitespace.tokens[k]
          q == t.text[1]
          o == FirstChar(t)
          e == ClosingQuote(input.text, o + 1, q)
      IN  (t.text # <<>> /\ q \in QuoteChars) =>
            IF e = 0
            THEN t.kind = NotClosedKind(q)
            ELSE t.kind = QuotedKind(q) /\ t.text = SubSeq(input.text, o, e)

\* a quoted token that holds an escaped quote or a doubled quote
C9_Witness ==
  /\ WithWhitespace.status = "returned"
  /\ \E k \in 1..Len(WithWhitespace.tokens) :
       LET t == WithWhitespace.tokens[k]
       IN  /\ t.kind \in {"StringLiteral", "QuotedIdentifier"}
           /\ Len(t.text) = 4
           /\ t.text[3] = t.text[1]
           /\ t.text[2] \in {"\\", t.text[1]}

\* C10: an unclosed quoted form or block comment gives one error token of the
\* kind of that form, whose text is the rest of the input from the opening
\* delimiter, and which is the last token.
C10_NotClosedToken ==
  WithWhitespace.status = "returned" =>
    \A k \in 1..Len(WithWhitespace.tokens) :
      LET t == WithWhitespace.tokens[k]
          o == FirstChar(t)
          rest == SubSeq(input.text, o, Len(input.text))
          quoted == t.text # <<>> /\ t.text[1] \in QuoteChars
          comment == Len(t.text) >= 2 /\ t.text[1] = "/" /\ t.text[2] = "*"
          unclosed ==
            \/ quoted /\ ClosingQuote(input.text, o + 1, t.text[1]) = 0
            \/ comment /\ ClosingComment(input.text, o + 2, 1) = 0
      IN  /\ unclosed =>
               t.kind = (IF quoted THEN NotClosedKind(t.text[1])
                         ELSE "ErrorMultilineCommentIsNotClosed")
          /\ t.kind \in NotClosedKinds =>
               /\ unclosed
               /\ k = Len(WithWhitespace.tokens)
               /\ t.text = rest
               /\ t.end = InputLen

\* an unclosed form after other tokens
C10_Witness ==
  /\ WithWhitespace.status = "returned"
  /\ Len(WithWhitespace.tokens) >= 2
  /\ WithWhitespace.tokens[Len(WithWhitespace.tokens)].kind \in NotClosedKinds
  /\ Len(WithWhitespace.tokens[Len(WithWhitespace.tokens)].text) >= 2

(***************************************************************************)
(* The scanner's claims on comments, numbers and operators                 *)
(***************************************************************************)
StartsWith(text, prefix) ==
  Len(text) >= Len(prefix) /\ SubSeq(text, 1, Len(prefix)) = prefix

RECURSIVE LineEnd(_, _)
\* The index of the last character of text before the first newline at or
\* after index k, Len(text) when there is no newline
LineEnd(text, k) ==
  IF k > Len(text) THEN Len(text)
  ELSE IF text[k] = "\n" THEN k - 1
  ELSE LineEnd(text, k + 1)

\* C11: block comments nest: the comment opened by /* is closed by the */ that
\* brings the nesting depth (1 at the opener, +1 at each inner /*, -1 at each
\* */) to 0, and the whole balanced span is one Comment token; a -- comment
\* runs up to but not including the next newline, or to the end of the input.
C11_CommentSpan ==
  WithWhitespace.status = "returned" =>
    \A k \in 1..Len(WithWhitespace.tokens) :
      LET t == WithWhitespace.tokens[k]
          o == FirstChar(t)
          e == ClosingComment(input.text, o + 2, 1)
      IN  /\ StartsWith(t.text, <<"/", "*">>) /\ e # 0 =>
               t.kind = "Comment" /\ t.text = SubSeq(input.text, o, e)
          /\ StartsWith(t.text, <<"-", "-">>) =>
               /\ t.kind = "Comment"
               /\ t.text = SubSeq(input.text, o, LineEnd(input.text, o))
          /\ t.kind = "Comment" =>
               StartsWith(t.text, <<"/", "*">>) \/ StartsWith(t.text, <<"-", "-">>)

\* a block comment that holds a closed block comment, and a -- comment that a
\* newline ends
C11_Witness ==
  /\ WithWhitespace.status = "returned"
  /\ \E k \in 1..Len(WithWhitespace.tokens) :
       LET t == WithWhitespace.tokens[k]
       IN  /\ t.kind = "Comment"
           /\ Len(t.text) >= 8
           /\ \E j \in 3..Len(t.text) - 5 : SubSeq(t.text, j, j + 3) = <<"/", "*", "*", "/">>
  /\ \E k \in 1..Len(WithWhitespace.tokens) - 1 :
       /\ WithWhitespace.tokens[k].kind = "Comment"
       /\ StartsWith(WithWhitespace.tokens[k].text, <<"-", "-">>)
       /\ WithWhitespace.tokens[k + 1].text[1] = "\n"

\* The tokenizer as read_number finds it when it scans token t: the first
\* digit of t consumed
AtNumber(t) ==
  [Tokenizer_new(input.text, input.pad, overflow_checks) EXCEPT
     !.i = FirstChar(t), !.position = t.start + 1,
     !.start = t.start, !.starti = FirstChar(t) - 1]

\* Token t starts with a digit that no dot precedes: read_number scans it as
\* a full number
IsFullNumberScan(t) ==
  /\ t.text # <<>>
  /\ is_ascii_digit(t.text[1])
  /\ ~(FirstChar(t) > 1 /\ input.text[FirstChar(t) - 1] = ".")

\* The tokenizer after the prefix, the integer part and the fractional part
\* of the number that token t starts, and the mode of the number
AfterMantissa(t) ==
  LET pre == number_prefix(AtNumber(t))
  IN  [s |-> number_mantissa(pre.s, pre.hex), hex |-> pre.hex]

HasExponentMarker(t) ==
  LET a == AfterMantissa(t)
  IN  \/ a.hex /\ peek(a.s) \in {"p", "P"}
      \/ ~a.hex /\ peek(a.s) \in {"e", "E"}

\* The tokenizer after the exponent marker and the one optional sign
AfterSign(t) ==
  LET s1 == Tokenizer_advance(AfterMantissa(t).s).s
  IN  IF peek(s1) \in {"+", "-"} THEN Tokenizer_advance(s1).s ELSE s1

\* The text of the input from the first character of token t to the cursor
SpanTo(t, s) == SubSeq(input.text, FirstChar(t), s.i)

IsLetterOrUnderscore(c) == c # NoneChar /\ (is_alphabetic(c) \/ c = "_")

\* C12 as stated: if the exponent marker (e/E in decimal mode, p/P in hex
\* mode) is present, optionally followed by one sign, but not followed by a
\* decimal digit, the whole token is an ErrorWrongNumber token; with at least
\* one digit it is a Number token.
C12_ExponentDigitsGiveNumber ==
  WithWhitespace.status = "returned" =>
    \A k \in 1..Len(WithWhitespace.tokens) :
      LET t == WithWhitespace.tokens[k]
      IN  IsFullNumberScan(t) /\ HasExponentMarker(t) =>
            IF ~current_char_is_digit(AfterSign(t))
            THEN t.kind = "ErrorWrongNumber" /\ t.text = SpanTo(t, AfterSign(t))
            ELSE t.kind = "Number"

\* C12 as amended: if the exponent marker is present, optionally followed by
\* one sign, but not followed by a decimal digit, the token is an
\* ErrorWrongNumber token that ends there; with at least one digit the token
\* is a Number token that ends after the exponent's digits, unless a letter
\* or an underscore follows them, and then it is a BareWord or
\* ErrorWrongNumber token that extends over them.
C12_ExponentDigitsGiveNumberUnlessLetter ==
  WithWhitespace.status = "returned" =>
    \A k \in 1..Len(WithWhitespace.tokens) :
      LET t == WithWhitespace.tokens[k]
          digits == read_digits(AfterSign(t))
      IN  IsFullNumberScan(t) /\ HasExponentMarker(t) =>
            IF ~current_char_is_digit(AfterSign(t))
            THEN t.kind = "ErrorWrongNumber" /\ t.text = SpanTo(t, AfterSign(t))
            ELSE IF IsLetterOrUnderscore(peek(digits))
            THEN /\ t.kind \in {"BareWord", "ErrorWrongNumber"}
                 /\ Len(t.text) > Len(SpanTo(t, digits))
            ELSE t.kind = "Number" /\ t.text = SpanTo(t, digits)

\* a number with a fraction and a signed exponent, an exponent with no digit
\* after its sign, and an exponent whose digit a letter follows
C12_Witness ==
  /\ WithWhitespace.status = "returned"
  /\ \A k \in 1..Len(WithWhitespace.tokens) :
       LET t == WithWhitespace.tokens[k]
       IN  t.kind # "Whitespace" => IsFullNumberScan(t) /\ HasExponentMarker(t)
  /\ \E k \in 1..Len(WithWhitespace.tokens) :
       LET t == WithWhitespace.tokens[k]
       IN  t.kind = "Number" /\ t.text = <<"1", ".", "1", "E", "-", "1">>
  /\ \E k \in 1..Len(WithWhitespace.tokens) :
       LET t == WithWhitespace.tokens[k]
       IN  t.kind = "ErrorWrongNumber" /\ t.text = <<"0", "x", "F", "P", "+">>
  /\ \E k \in 1..Len(WithWhitespace.tokens) :
       LET t == WithWhitespace.tokens[k]
       IN  t.kind = "BareWord" /\ t.text = <<"1", "e", "1", "a">>

\* Token t starts with a digit: read_number scans it
IsNumberScan(t) == t.text # <<>> /\ is_ascii_digit(t.text[1])

\* The exponent of the number that token t starts is a marker with no digit
HasExponentWithoutDigit(t) ==
  IsFullNumberScan(t) /\ HasExponentMarker(t) /\ ~current_char_is_digit(AfterSign(t))

\* The tokenizer at the end of the number that token t starts: after the digit
\* run of a tuple index, or after the prefix, the integer part, the
\* fractional part and the exponent of a full number
AfterNumber(t) ==
  IF ~IsFullNumberScan(t) THEN read_digits(AtNumber(t))
  ELSE IF HasExponentMarker(t) THEN read_digits(AfterSign(t))
  ELSE AfterMantissa(t).s

IsIdentifierChar(c) == is_alphanumeric(c) \/ c \in {"_", "$"}

RECURSIVE RunEnd(_, _)
\* The index of the last character of the run of identifier characters of
\* text that starts at index k, k - 1 when there is none
RunEnd(text, k) ==
  IF k <= Len(text) /\ IsIdentifierChar(text[k]) THEN RunEnd(text, k + 1) ELSE k - 1

\* C13: if a scanned number (a number whose exponent, if it has one, has its
\* digits) is immediately followed by a letter or an underscore, the token extends over the following run of alphanumeric,
\* underscore and $ characters and is one token for the whole span from the
\* first digit: a BareWord if every character of the span is alphanumeric,
\* an underscore or $, otherwise an ErrorWrongNumber.
C13_NumberThenLetter ==
  WithWhitespace.status = "returned" =>
    \A k \in 1..Len(WithWhitespace.tokens) :
      LET t == WithWhitespace.tokens[k]
          o == FirstChar(t)
          e == RunEnd(input.text, AfterNumber(t).i + 1)
          span == SubSeq(input.text, o, e)
      IN  /\ IsNumberScan(t) /\ ~HasExponentWithoutDigit(t)
          /\ IsLetterOrUnderscore(peek(AfterNumber(t)))
          => /\ t.text = span
             /\ t.kind = IF \A j \in 1..Len(span) : IsIdentifierChar(span[j])
                         THEN "BareWord" ELSE "ErrorWrongNumber"

\* a number and the letters after it as one BareWord, and a number with a
\* fraction and the letter after it as one ErrorWrongNumber
C13_Witness ==
  /\ WithWhitespace.status = "returned"
  /\ \E k \in 1..Len(WithWhitespace.tokens) :
       LET t == WithWhitespace.tokens[k]
       IN  t.kind = "BareWord" /\ t.text = <<"1", "a", "$">>
  /\ \E k \in 1..Len(WithWhitespace.tokens) :
       LET t == WithWhitespace.tokens[k]
       IN  t.kind = "ErrorWrongNumber" /\ t.text = <<"1", ".", "1", "a">>
  /\ \E k \in 1..Len(WithWhitespace.tokens) :
       LET t == WithWhitespace.tokens[k]
       IN  t.kind = "BareWord" /\ t.text = <<"1", "_">> /\ ~IsFullNumberScan(t)

\* Token t starts with a digit that a dot precedes
IsTupleIndexScan(t) == IsNumberScan(t) /\ ~IsFullNumberScan(t)

\* C14: a digit whose immediately preceding input character is a dot is
\* scanned as a bare digit run only (no fraction, no exponent, no hex or
\* binary prefix), so x.1.1 gives BareWord, Dot, Number 1, Dot, Number 1.
C14_TupleIndexIsDigitRun ==
  WithWhitespace.status = "returned" =>
    /\ \A k \in 1..Len(WithWhitespace.tokens) :
         LET t == WithWhitespace.tokens[k]
             run == read_digits(AtNumber(t))
         IN  IsTupleIndexScan(t) =>
               IF IsLetterOrUnderscore(peek(run))
               THEN t.kind = "BareWord"
               ELSE /\ t.kind = "Number"
                    /\ t.text = SpanTo(t, run)
                    /\ \A j \in 1..Len(t.text) : t.text[j] \in AsciiDigits \cup {"_"}
    /\ input.text = TupleAccess =>
         /\ KindsOf(WithWhitespace.tokens) = <<"BareWord", "Dot", "Number", "Dot", "Number">>
         /\ WithWhitespace.tokens[3].text = <<"1">>
         /\ WithWhitespace.tokens[5].text = <<"1">>

\* x.1.1 scanned
C14_Witness ==
  /\ WithWhitespace.status = "returned"
  /\ input.text = TupleAccess
  /\ IsTupleIndexScan(WithWhitespace.tokens[3])
  /\ IsTupleIndexScan(WithWhitespace.tokens[5])

\* Token t is scanned as a full number and starts with 0x or 0X
HasHexPrefix(t) ==
  /\ IsFullNumberScan(t)
  /\ t.text[1] = "0"
  /\ peek(AtNumber(t)) \in {"x", "X"}

\* The tokenizer after the x of the prefix of token t and the hex digits, the
\* dot and the hex digits that follow it
AfterHexMantissa(t) == number_mantissa(Tokenizer_advance(AtNumber(t)).s, TRUE)

\* C15: the 0x / 0X prefix is consumed as part of a number only when the
\* character after it is a hex digit; after it the integer and fractional
\* digits are read as hex digits and only p / P can introduce the exponent,
\* so 0xFF is one Number token with text 0xFF.
C15_HexPrefix ==
  WithWhitespace.status = "returned" =>
    \A k \in 1..Len(WithWhitespace.tokens) :
      LET t == WithWhitespace.tokens[k]
          mant == AfterHexMantissa(t)
      IN  /\ HasHexPrefix(t) /\ ~is_ascii_hexdigit(peek_next(AtNumber(t))) =>
               t.kind # "Number"
          /\ HasHexPrefix(t) /\ is_ascii_hexdigit(peek_next(AtNumber(t))) =>
               /\ StartsWith(t.text, SpanTo(t, mant))
               /\ \A j \in 3..Len(SpanTo(t, mant)) :
                    is_ascii_hexdigit(t.text[j]) \/ t.text[j] \in {"_", "."}
               /\ IF peek(mant) \in {"p", "P"}
                  THEN /\ Len(t.text) > Len(SpanTo(t, mant))
                       /\ t.kind = "Number" =>
                            \A j \in Len(SpanTo(t, mant)) + 2..Len(t.text) :
                              t.text[j] \in AsciiDigits \cup {"_", "+", "-"}
                  ELSE IF IsLetterOrUnderscore(peek(mant))
                  THEN t.kind \in {"BareWord", "ErrorWrongNumber"}
                  ELSE t.kind = "Number" /\ t.text = SpanTo(t, mant)
          /\ input.text = <<"0", "x", "F", "F">> =>
               /\ Len(WithWhitespace.tokens) = 1
               /\ t.kind = "Number"
               /\ t.text = <<"0", "x", "F", "F">>

\* 0xFF, a hex number with a fraction and a p exponent, a prefix that no hex
\* digit follows, and a hex number whose digits hold an e
C15_Witness ==
  /\ WithWhitespace.status = "returned"
  /\ input.text = HexNumbers
  /\ \A k \in 1..Len(WithWhitespace.tokens) :
       WithWhitespace.tokens[k].kind # "Whitespace" => HasHexPrefix(WithWhitespace.tokens[k])
  /\ WithWhitespace.tokens[1].kind = "Number"
  /\ WithWhitespace.tokens[1].text = <<"0", "x", "F", "F">>
  /\ WithWhitespace.tokens[3].kind = "Number"
  /\ WithWhitespace.tokens[3].text = <<"0", "X", "1", ".", "E", "p", "1">>
  /\ WithWhitespace.tokens[5].kind = "BareWord"
  /\ WithWhitespace.tokens[7].kind = "Number"
  /\ WithWhitespace.tokens[7].text = <<"0", "x", "1", "e", "1">>

\* C16: a Spaceship token is produced only for the source text <=> and an
\* Equals token only for the source text =: no input makes the scan that
\* starts at = yield a Spaceship token or an Equals token with other text.
C16_SpaceshipAndEqualsText ==
  WithWhitespace.status = "returned" =>
    \A k \in 1..Len(WithWhitespace.tokens) :
      LET t == WithWhitespace.tokens[k]
      IN  /\ t.kind = "Spaceship" => t.text = <<"<", "=", ">">>
          /\ t.kind = "Equals" => t.text = <<"=">>

\* The token after token k of tokens starts where token k ends, one byte
\* after its start, or token k is the last and ends the input
ContinuesAfterOneChar(tokens, k) ==
  /\ tokens[k].end = tokens[k].start + 1
  /\ IF k < Len(tokens) THEN tokens[k + 1].start = tokens[k].end
     ELSE tokens[k].end = InputLen

\* C17: a ! not followed by = gives a one-character
\* ErrorSingleExclamationMark token and a | not followed by | gives a
\* one-character ErrorSinglePipeMark token, never the Error kind, and the
\* scan continues with the next character.
C17_SingleMarkErrors ==
  WithWhitespace.status = "returned" =>
    \A k \in 1..Len(WithWhitespace.tokens) :
      LET t == WithWhitespace.tokens[k]
          next == peek(AtNumber(t))
      IN  /\ t.text # <<>> /\ t.text[1] = "!" /\ next # "=" =>
               /\ t.kind = "ErrorSingleExclamationMark"
               /\ t.text = <<"!">>
               /\ ContinuesAfterOneChar(WithWhitespace.tokens, k)
          /\ t.text # <<>> /\ t.text[1] = "|" /\ next # "|" =>
               /\ t.kind = "ErrorSinglePipeMark"
               /\ t.text = <<"|">>
               /\ ContinuesAfterOneChar(WithWhitespace.tokens, k)
          /\ t.kind = "ErrorSingleExclamationMark" => t.text = <<"!">> /\ next # "="
          /\ t.kind = "ErrorSinglePipeMark" => t.text = <<"|">> /\ next # "|"

\* a single ! and a single | with tokens after them
C17_Witness ==
  /\ WithWhitespace.status = "returned"
  /\ Len(WithWhitespace.tokens) = 4
  /\ KindsOf(WithWhitespace.tokens) \in
       {<<"ErrorSingleExclamationMark", "ErrorSinglePipeMark", k3, k4>> :
          k3 \in {"Less", "Greater", "ErrorSingleExclamationMark"},
          k4 \in {"ErrorSinglePipeMark", "Equals"}}

\* C18: if the input is longer than MAX_QUERY_SIZE (1,000,000 bytes), tokenize
\* returns exactly two tokens, ErrorMaxQuerySizeExceeded followed by
\* EndOfStream, without scanning any content; an input of length at most
\* MAX_QUERY_SIZE is scanned normally.
C18_SizeGuard ==
  \A f \in EntryPoints :
    lex[f].status # "none" =>
      IF InputLen > MAX_QUERY_SIZE
      THEN /\ lex[f].status = "returned"
           /\ lex[f].tokens =
                <<Token("ErrorMaxQuerySizeExceeded", <<>>, 0, 0, 1, 1),
                  Token("EndOfStream", <<>>, 0, 0, 1, 1)>>
      ELSE lex[f].status = "returned" =>
             /\ \A k \in 1..Len(lex[f].tokens) :
                  lex[f].tokens[k].kind # "ErrorMaxQuerySizeExceeded"
             /\ f = "tokenize_with_whitespace" =>
                  ConcatText(lex[f].tokens) = input.text

\* tokenize called on an input of more than MAX_QUERY_SIZE bytes
C18_Witness ==
  /\ InputLen > MAX_QUERY_SIZE
  /\ lex.tokenize.status = "returned"
  /\ Len(lex.tokenize.tokens) = 2
  /\ input.text # <<>>

NotTrivia(t) == t.kind \notin {"Whitespace", "Comment"}

\* C19: for every input, tokenize(text) is tokenize_with_whitespace(text) with
\* every Whitespace and Comment token removed, the remaining tokens having
\* the same kind, text, start, end, line and column.
C19_EntryPointsAgree ==
  lex.tokenize.status # "none" /\ WithWhitespace.status # "none" =>
    /\ lex.tokenize.status = WithWhitespace.status
    /\ lex.tokenize.panic = WithWhitespace.panic
    /\ lex.tokenize.tokens = SelectSeq(WithWhitespace.tokens, NotTrivia)

\* both entry points called on an input with a comment and whitespace between
\* other tokens
C19_Witness ==
  /\ lex.tokenize.status = "returned"
  /\ WithWhitespace.status = "returned"
  /\ Len(lex.tokenize.tokens) >= 2
  /\ \E k \in 1..Len(WithWhitespace.tokens) : WithWhitespace.tokens[k].kind = "Comment"
  /\ \E k \in 1..Len(WithWhitespace.tokens) : WithWhitespace.tokens[k].kind = "Whitespace"

UpTo == lex.tokenize_up_to

\* C20: tokenize_up_to(text, p) stops once the scan cursor reaches or passes
\* byte offset p and excludes trivia: it returns exactly the tokens of
\* tokenize(text) whose start offset is less than p, in order, and no
\* Whitespace or Comment token.
C20_UpToIsTokenizeBefore ==
  UpTo.status = "returned" /\ lex.tokenize.status = "returned" =>
    LET Before(t) == t.start < UpTo.position
    IN  /\ UpTo.tokens = SelectSeq(lex.tokenize.tokens, Before)
        /\ \A k \in 1..Len(UpTo.tokens) : NotTrivia(UpTo.tokens[k])

(***************************************************************************)
(* The parser's claims                                                     *)
(***************************************************************************)
Trivia == {"Whitespace", "Comment"}

RECURSIVE Leaves(_), LeavesOfChildren(_)
\* The token leaves of a tree in pre-order
Leaves(tree) == LeavesOfChildren(tree.children)
LeavesOfChildren(children) ==
  IF children = <<>> THEN <<>>
  ELSE (IF Head(children).tag = "Token" THEN <<Head(children).val>>
        ELSE Leaves(Head(children).val))
       \o LeavesOfChildren(Tail(children))

RECURSIVE HasErrorTree(_)
HasErrorTree(tree) ==
  \/ tree.kind = "ErrorTree"
  \/ \E k \in 1..Len(tree.children) :
       tree.children[k].tag = "Tree" /\ HasErrorTree(tree.children[k].val)

\* A tree without its trivia: a node is its kind and its children, a token
\* leaf its text.
Node(kind, children) == [kind |-> kind, text |-> <<>>, children |-> children]
Leaf(text) == [kind |-> "Token", text |-> text, children |-> <<>>]

RECURSIVE WithoutTrivia(_), ChildrenWithoutTrivia(_)
WithoutTrivia(tree) == Node(tree.kind, ChildrenWithoutTrivia(tree.children))
ChildrenWithoutTrivia(children) ==
  IF children = <<>> THEN <<>>
  ELSE LET c == Head(children)
           rest == ChildrenWithoutTrivia(Tail(children))
       IN  IF c.tag = "Tree" THEN <<WithoutTrivia(c.val)>> \o rest
           ELSE IF c.val.kind \in Trivia THEN rest
           ELSE <<Leaf(c.val.text)>> \o rest

\* C1: parse(text) returns a tree for every text; it never aborts.
C1_ParseNeverAborts == result.status # "panicked"

\* C4: when parse builds a tree, the token leaves of the tree in pre-order
\* are the tokens of tokenize_with_whitespace on the input, whitespace and
\* comments included, each once and in source order.
C4_LeavesAreTheTokens ==
  result.status = "returned" =>
    /\ WithWhitespace.status = "returned"
    /\ Leaves(result.tree) = WithWhitespace.tokens

\* a tree built over whitespace, a comment and tokens at several depths
C4_Witness ==
  /\ result.status = "returned"
  /\ Len(Leaves(result.tree)) >= 5
  /\ \E k \in 1..Len(WithWhitespace.tokens) : WithWhitespace.tokens[k].kind = "Whitespace"
  /\ \E k \in 1..Len(WithWhitespace.tokens) : WithWhitespace.tokens[k].kind = "Comment"
  /\ \E k \in 1..Len(result.tree.children) : result.tree.children[k].tag = "Tree"

\* the lines expect and expect_keyword have written to stderr
ExpectedLines ==
  {k \in 1..Len(parser.stderr) : parser.stderr[k][1] = "expected"}

\* C6: every grammar error is recorded in the tree: when expect or
\* expect_keyword has not found its token, the returned tree holds an
\* ErrorTree node.
C6_ExpectFailureGivesErrorTree ==
  result.status = "returned" /\ ExpectedLines # {} => HasErrorTree(result.tree)

\* C7: no input drives the fuel guard to exhaustion: the parser never makes
\* more lookaheads without an advance than the fuel allows.
C7_FuelNeverExhausted ==
  ~(pc = "done" /\ Unwinding(parser) /\ parser.panic = "parser is stuck")

\* a op1 b op2 c without trivia, as the tree the claim gives it
ColumnReference(name) == Node("ColumnReference", <<Leaf(<<name>>)>>)
BinaryExpression(lhs, op, rhs) ==
  Node("BinaryExpression", <<lhs, Leaf(OperatorText[op]), rhs>>)

Level(op) == CHOOSE l \in 1..Len(PrecedenceTable) : op \in PrecedenceTable[l]

Grouping(op1, op2) ==
  IF Level(op2) > Level(op1)
  THEN BinaryExpression(ColumnReference("a"), op1,
         BinaryExpression(ColumnReference("b"), op2, ColumnReference("c")))
  ELSE BinaryExpression(
         BinaryExpression(ColumnReference("a"), op1, ColumnReference("b")),
         op2, ColumnReference("c"))

\* the tree of SELECT followed by one column expression
SelectOf(expression) ==
  Node("File",
    <<Node("SelectStatement",
        <<Node("SelectClause",
            <<Leaf(SELECT), Node("ColumnList", <<expression>>)>>)>>)>>)

\* C8: for any two operators op1, op2 of the precedence table, a op1 b op2 c
\* parses as BinaryExpression(a, op1, BinaryExpression(b, op2, c)) when the
\* level of op2 is strictly tighter than the level of op1, and as
\* BinaryExpression(BinaryExpression(a, op1, b), op2, c) otherwise.
C8_PrecedenceGrouping ==
  \A op1 \in Operators, op2 \in Operators, sep \in Separators :
    (pc = "done" /\ input.text = TwoOperators(op1, op2, sep) /\ input.pad = 0) =>
      /\ result.status = "returned"
      /\ WithoutTrivia(result.tree) = SelectOf(Grouping(op1, op2))

\* a + b * c parsed, where the second operator binds tighter
C8_Witness ==
  /\ result.status = "returned"
  /\ input.text = TwoOperators("Plus", "Asterisk", Space)
  /\ WithoutTrivia(result.tree) =
       SelectOf(BinaryExpression(ColumnReference("a"), "Plus",
                  BinaryExpression(ColumnReference("b"), "Asterisk",
                                   ColumnReference("c"))))


(***************************************************************************)
(* The scanner's claims on the places of the tokens                        *)
(***************************************************************************)
\* the characters of the input before byte offset off
TextBefore(off) == SubSeq(input.text, 1, CharIndexOf(input.text, off))

\* the place of the last newline of a text, 0 when it has none
LastNewline(text) ==
  IF \E k \in 1..Len(text) : text[k] = "\n"
  THEN CHOOSE k \in 1..Len(text) :
         text[k] = "\n" /\ \A j \in k + 1..Len(text) : text[j] # "\n"
  ELSE 0

\* C36: for every token, start and end are the byte offsets of its text in
\* the input, line is the line of its first character counted from 1 (1 plus
\* the newlines before it) and column the column of its first character
\* counted from 1 (1 plus the characters between the newline before it, or
\* the start of the input, and the token); line and column are never less
\* than 1.
C36_TokenPlaces ==
  \A f \in EntryPoints :
    (lex[f].status = "returned" /\ InputLen <= MAX_QUERY_SIZE) =>
      \A k \in 1..Len(lex[f].tokens) :
        \E t \in {lex[f].tokens[k]} :
          /\ t.line >= 1
          /\ t.column >= 1
          /\ t.text # <<>> =>
               /\ str_len(TextBefore(t.start)) = t.start
               /\ t.end = t.start + str_len(t.text)
               /\ SubSeq(input.text, FirstChar(t), CharIndexOf(input.text, t.end)) = t.text
               /\ t.line = 1 + count_newlines(TextBefore(t.start))
               /\ t.column = 1 + Len(TextBefore(t.start)) - LastNewline(TextBefore(t.start))

\* C39: for every input of at most MAX_QUERY_SIZE bytes the tokens of
\* tokenize_with_whitespace tile the input: the first starts at offset 0,
\* each starts where the one before it ends, each is non-empty (end > start),
\* the last ends at the length of the input, and the text of each is the
\* input from its start to its end.
C39_TokensTileInput ==
  (WithWhitespace.status = "returned" /\ InputLen <= MAX_QUERY_SIZE) =>
    \E tokens \in {WithWhitespace.tokens} :
      /\ tokens # <<>> => tokens[1].start = 0
      /\ \A k \in 2..Len(tokens) : tokens[k].start = tokens[k - 1].end
      /\ \A k \in 1..Len(tokens) :
           /\ tokens[k].end > tokens[k].start
           /\ tokens[k].text =
                SubSeq(input.text, FirstChar(tokens[k]),
                       CharIndexOf(input.text, tokens[k].end))
      /\ (IF tokens = <<>> THEN 0 ELSE tokens[Len(tokens)].end) = str_len(input.text)

C39_Witness ==
  /\ WithWhitespace.status = "returned"
  /\ InputLen <= MAX_QUERY_SIZE
  /\ Len(WithWhitespace.tokens) = 3
  /\ WithWhitespace.tokens[2].kind = "Comment"
  /\ WithWhitespace.tokens[3].end = str_len(input.text)

(***************************************************************************)
(* The parser's claims on keywords, clauses and expressions                *)
(***************************************************************************)
\* the tokens the parser was made of, and the place of the first of them that
\* is no trivia (one past the last when there is none)
KeywordTokens == lex.tokenize_with_whitespace.tokens

NextIndex ==
  CHOOSE k \in 1..Len(KeywordTokens) + 1 :
    /\ \A j \in 1..k - 1 : KeywordTokens[j].kind \in {"Whitespace", "Comment"}
    /\ k <= Len(KeywordTokens) => KeywordTokens[k].kind \notin {"Whitespace", "Comment"}

SameLetters(a, b) ==
  /\ Len(a) = Len(b)
  /\ \A k \in 1..Len(a) : to_ascii_lowercase(a[k]) = to_ascii_lowercase(b[k])

NextIsKeyword(keyword) ==
  /\ NextIndex <= Len(KeywordTokens)
  /\ KeywordTokens[NextIndex].kind = "BareWord"
  /\ SameLetters(KeywordTokens[NextIndex].text, as_str(keyword))

Advances(p) == Cardinality({k \in 1..Len(p.events) : p.events[k].type = "Advance"})

\* C21: a keyword test is true exactly when the next token that is no trivia
\* is a bare word whose text is the keyword's spelling, letter case ignored;
\* so a quoted identifier is never a keyword.  eat_keyword and expect_keyword
\* then consume that one token, and on no match nothing but the trivia before
\* it is passed, expect_keyword reporting the keyword it missed.
C21_KeywordIsBareWordIgnoringCase ==
  out.call \in {"at_keyword", "eat_keyword", "expect_keyword"} =>
    /\ parser.panic = NoPanic
    /\ parser.tokens = KeywordTokens
    /\ out.call \in {"at_keyword", "eat_keyword"} => out.r = NextIsKeyword(out.keyword)
    /\ (NextIndex <= Len(KeywordTokens) /\ KeywordTokens[NextIndex].kind = "QuotedIdentifier")
         => ~out.r /\ parser.pos = NextIndex - 1
    /\ parser.pos = IF out.call # "at_keyword" /\ NextIsKeyword(out.keyword)
                    THEN NextIndex ELSE NextIndex - 1
    /\ Advances(parser) = parser.pos
    /\ out.call = "expect_keyword" =>
         parser.stderr = IF NextIsKeyword(out.keyword) THEN <<>>
                         ELSE <<<<"expected", out.keyword>>>>

\* select, after a comment and a blank, is eaten as the keyword Select
C21_Witness ==
  /\ out.call = "eat_keyword"
  /\ out.r
  /\ out.keyword = "Select"
  /\ NextIndex = 3
  /\ KeywordTokens[3].text = <<"s", "e", "l", "e", "c", "t">>
  /\ parser.pos = 3
  /\ Len(KeywordTokens) > 3


RECURSIVE Subtrees(_)
\* a tree and the trees below it
Subtrees(tree) ==
  {tree} \cup UNION { Subtrees(tree.children[k].val)
                      : k \in {j \in 1..Len(tree.children) : tree.children[j].tag = "Tree"} }

\* the nodes of a kind in the tree parse has returned
NodesOfKind(kind) == {t \in Subtrees(result.tree) : t.kind = kind}

\* the places of the children of a node that are trees of a kind
ChildrenOfKind(tree, kind) ==
  {k \in 1..Len(tree.children) :
     tree.children[k].tag = "Tree" /\ tree.children[k].val.kind = kind}

\* trees without trivia, as the claims give them
TableIdentifier(name) == Node("TableIdentifier", <<Leaf(name)>>)
FromClause(name) == Node("FromClause", <<Leaf(FROM), TableIdentifier(name)>>)
SelectClause(columns) ==
  Node("SelectClause", <<Leaf(SELECT), Node("ColumnList", columns)>>)
File(clauses) == Node("File", <<Node("SelectStatement", clauses)>>)
EmptyErrorTree == Node("ErrorTree", <<>>)

Parsed(text) == pc = "done" /\ input.text = text /\ input.pad = 0
ParsedAs(tree) == result.status = "returned" /\ WithoutTrivia(result.tree) = tree

\* C22: FROM may stand before or after SELECT.  A SelectStatement with one
\* FromClause holds no ErrorTree of its own, and FROM t SELECT x gives the
\* FromClause before the SelectClause; with FROM on both sides both
\* FromClause nodes are children of the SelectStatement, and an empty
\* ErrorTree is the child directly after the second.
C22_FromOnEitherSide ==
  /\ result.status = "returned" =>
       \A s \in NodesOfKind("SelectStatement") :
         \E from \in {ChildrenOfKind(s, "FromClause")},
            errors \in {ChildrenOfKind(s, "ErrorTree")},
            select \in {ChildrenOfKind(s, "SelectClause")} :
           /\ Cardinality(from) <= 2
           /\ Cardinality(from) <= 1 => errors = {}
           /\ Cardinality(from) = 2 =>
                \E a \in from, b \in from :
                  /\ \A k \in select : a < k /\ k < b
                  /\ errors = {b + 1}
                  /\ s.children[b + 1].val.children = <<>>
  /\ \A sep \in Separators :
       /\ Parsed(Join(<<SELECT, <<"x">>, FROM, <<"t">>>>, sep)) =>
            ParsedAs(File(<<SelectClause(<<ColumnReference("x")>>), FromClause(<<"t">>)>>))
       /\ Parsed(Join(<<FROM, <<"t">>, SELECT, <<"x">>>>, sep)) =>
            ParsedAs(File(<<FromClause(<<"t">>), SelectClause(<<ColumnReference("x")>>)>>))
       /\ Parsed(Join(<<FROM, <<"a">>, SELECT, <<"x">>, FROM, <<"b">>>>, sep)) =>
            ParsedAs(File(<<FromClause(<<"a">>), SelectClause(<<ColumnReference("x")>>),
                            FromClause(<<"b">>), EmptyErrorTree>>))

\* FROM a SELECT x FROM b parsed: two FromClause nodes and the ErrorTree
C22_Witness ==
  /\ Parsed(Join(<<FROM, <<"a">>, SELECT, <<"x">>, FROM, <<"b">>>>, Space))
  /\ result.status = "returned"
  /\ \E s \in NodesOfKind("SelectStatement") :
       /\ Cardinality(ChildrenOfKind(s, "FromClause")) = 2
       /\ Cardinality(ChildrenOfKind(s, "ErrorTree")) = 1


RECURSIVE NotTriviaChildren(_)
\* the children of a node but the whitespace and the comments
NotTriviaChildren(children) ==
  IF children = <<>> THEN <<>>
  ELSE (IF Head(children).tag = "Token" /\ Head(children).val.kind \in Trivia
        THEN <<>> ELSE <<Head(children)>>)
       \o NotTriviaChildren(Tail(children))

IsToken(child, kinds) == child.tag = "Token" /\ child.val.kind \in kinds
IsTree(child, kind) == child.tag = "Tree" /\ child.val.kind = kind
IsKeywordToken(child, keyword) ==
  IsToken(child, {"BareWord"}) /\ SameLetters(child.val.text, as_str(keyword))
IsEmptyErrorTree(child) == IsTree(child, "ErrorTree") /\ child.val.children = <<>>

ColumnAlias(children) == Node("ColumnAlias", children)

\* C23: in a column list the alias after AS is a bare word or a quoted
\* identifier inside a ColumnAlias node; when none follows AS (a clause
\* keyword, a comma, a semicolon or the end of the input comes next) the
\* ColumnAlias holds AS and an empty ErrorTree, and no token is consumed.
C23_AliasAfterAs ==
  /\ result.status = "returned" =>
       \A c \in NodesOfKind("ColumnAlias") :
         \E kids \in {NotTriviaChildren(c.children)} :
           (kids # <<>> /\ IsKeywordToken(kids[1], "As")) =>
             /\ Len(kids) = 2
             /\ \/ IsToken(kids[2], {"BareWord", "QuotedIdentifier"})
                \/ IsEmptyErrorTree(kids[2])
  /\ \A sep \in Separators :
       Parsed(Join(<<SELECT, <<"a">>, AS>>, sep)) =>
         ParsedAs(File(<<SelectClause(<<ColumnReference("a"),
                                         ColumnAlias(<<Leaf(AS), EmptyErrorTree>>)>>)>>))


\* the tokens a column list ends at
ClauseKeywords == {"Select", "From", "Where", "Order", "Limit"}
EndsColumnList(token) ==
  \/ token.kind \in {"ClosingRoundBracket", "Semicolon"}
  \/ token.kind = "BareWord"
       /\ \E keyword \in ClauseKeywords : SameLetters(token.text, as_str(keyword))

\* a text without an opening bracket: all of a column list is at list level
NoOpeningBracket ==
  \A k \in 1..Len(WithWhitespace.tokens) :
    WithWhitespace.tokens[k].kind \notin {"OpeningRoundBracket", "OpeningSquareBracket"}

\* C24: a column list ends at the first clause keyword (SELECT, FROM, WHERE,
\* ORDER, LIMIT) or end of the statement (a closing bracket, a semicolon, the
\* end of the input) met at list level: the ColumnList node is closed before
\* that token, which is no leaf of the list, also when it follows a comma.
C24_ColumnListEnds ==
  (result.status = "returned" /\ NoOpeningBracket) =>
    \A c \in NodesOfKind("ColumnList") :
      \A k \in 1..Len(Leaves(c)) : ~EndsColumnList(Leaves(c)[k])


WhereClause(expression) == Node("WhereClause", <<Leaf(WHERE), expression>>)

\* the last token of the input that is no trivia
LastToken ==
  CHOOSE t \in {WithWhitespace.tokens[k] : k \in 1..Len(WithWhitespace.tokens)} :
    /\ t.kind \notin Trivia
    /\ \A k \in 1..Len(WithWhitespace.tokens) :
         WithWhitespace.tokens[k].start > t.start => WithWhitespace.tokens[k].kind \in Trivia

\* a table reference name . with no name after the dot
DotWithoutName(kids) ==
  /\ Len(kids) >= 3
  /\ IsToken(kids[1], TableNameKinds)
  /\ IsToken(kids[2], {"Dot"})
  /\ ~IsToken(kids[3], TableNameKinds)

\* C25: in a table reference name . where the token after the dot is neither
\* a bare word nor a quoted identifier, the TableIdentifier ends with an
\* ErrorTree that holds that one token, or nothing when the dot ends the
\* input; the TableIdentifier and the FromClause are closed, and the rest of
\* the statement is parsed.
C25_DotWithoutTableName ==
  /\ result.status = "returned" =>
       \A t \in NodesOfKind("TableIdentifier") :
         \E kids \in {NotTriviaChildren(t.children)} :
           DotWithoutName(kids) =>
             /\ Len(kids) = 3
             /\ IsTree(kids[3], "ErrorTree")
             /\ \E skipped \in {kids[3].val.children} :
                  IF kids[2].val = LastToken THEN skipped = <<>>
                  ELSE /\ Len(skipped) = 1
                       /\ skipped[1].tag = "Token"
                       /\ skipped[1].val.kind \notin TableNameKinds \cup Trivia
                       /\ skipped[1].val.start >= kids[2].val.end
  /\ \A sep \in Separators :
       /\ Parsed(Join(<<SELECT, <<"a">>, FROM, <<"t">>, <<".">>, <<"1">>, WHERE, <<"b">>>>, sep)) =>
            ParsedAs(File(<<SelectClause(<<ColumnReference("a")>>),
                            Node("FromClause",
                              <<Leaf(FROM),
                                Node("TableIdentifier",
                                  <<Leaf(<<"t">>), Leaf(<<".">>),
                                    Node("ErrorTree", <<Leaf(<<"1">>)>>)>>)>>),
                            WhereClause(ColumnReference("b"))>>))
       /\ Parsed(Join(<<SELECT, <<"a">>, FROM, <<"t">>, <<".">>>>, sep)) =>
            ParsedAs(File(<<SelectClause(<<ColumnReference("a")>>),
                            Node("FromClause",
                              <<Leaf(FROM),
                                Node("TableIdentifier",
                                  <<Leaf(<<"t">>), Leaf(<<".">>), EmptyErrorTree>>)>>)>>))

\* SELECT a FROM t . 1 WHERE b parsed: the 1 in an ErrorTree, then the WhereClause
C25_Witness ==
  /\ Parsed(Join(<<SELECT, <<"a">>, FROM, <<"t">>, <<".">>, <<"1">>, WHERE, <<"b">>>>, Space))
  /\ result.status = "returned"
  /\ \E t \in NodesOfKind("TableIdentifier") : DotWithoutName(NotTriviaChildren(t.children))
  /\ NodesOfKind("WhereClause") # {}


\* expressions without trivia, as the claims give them
CastExpression(expression, type) ==
  Node("CastExpression", <<expression, Leaf(<<":", ":">>), type>>)
DataType(name, parameters) == Node("DataType", <<Leaf(name)>> \o parameters)
DataTypeParameters(types) ==
  Node("DataTypeParameters", <<Leaf(<<"(">>)>> \o types \o <<Leaf(<<")">>)>>)
ExpressionList(arguments) ==
  Node("ExpressionList", <<Leaf(<<"(">>)>> \o arguments \o <<Leaf(<<")">>)>>)
FunctionCall(callee, arguments) ==
  Node("FunctionCall", <<callee, ExpressionList(arguments)>>)
Expression(expression) == Node("Expression", <<expression>>)

\* the tokens of an expression written with nothing, a blank or a comment
\* between them, as the one column of a SELECT
Glues == Separators \cup {<<>>}
SelectTokens(tokens, glue) == SELECT \o Space \o Join(tokens, glue)

CastOfColumn == <<<<"x">>, <<":", ":">>, <<"A", "r", "r", "a", "y">>, <<"(">>,
                  <<"I", "n", "t", "6", "4">>, <<")">>>>
CastOfCall == <<<<"f">>, <<"(">>, <<"x">>, <<")">>, <<":", ":">>, <<"T">>>>

\* C26: a :: directly after a primary expression, or after the call suffixes
\* of a primary as in f(x)::T, is consumed with the type after it into a
\* CastExpression node around the expression before it: SELECT
\* x::Array(Int64) gives the CastExpression of ColumnReference x and of
\* DataType Array with one DataTypeParameters child holding DataType Int64.
C26_CastAfterPrimaryOrCall ==
  \A glue \in Glues :
    /\ Parsed(SelectTokens(CastOfColumn, glue)) =>
         ParsedAs(SelectOf(
           CastExpression(ColumnReference("x"),
             DataType(<<"A", "r", "r", "a", "y">>,
               <<DataTypeParameters(<<DataType(<<"I", "n", "t", "6", "4">>, <<>>)>>)>>))))
    /\ Parsed(SelectTokens(CastOfCall, glue)) =>
         ParsedAs(SelectOf(
           CastExpression(FunctionCall(ColumnReference("f"),
                                       <<Expression(ColumnReference("x"))>>),
                          DataType(<<"T">>, <<>>))))


LambdaExpression(parameter, body) ==
  Node("LambdaExpression", <<parameter, Leaf(<<"-", ">">>), body>>)

CallOfCall == <<<<"f">>, <<"(">>, <<"a">>, <<")">>, <<"(">>, <<"b">>, <<")">>>>
CallWithLambda ==
  <<<<"f">>, <<"(">>, <<"a">>, <<",">>, <<"b">>, <<"-", ">">>, <<"c">>, <<")">>>>

\* C27: each (...) directly after the expression parsed so far wraps that
\* expression in a new FunctionCall node, whose children are the callee and
\* then one ExpressionList, so that f(a)(b) gives
\* FunctionCall(FunctionCall(f, (a)), (b)); in the list every argument is an
\* Expression node, or a LambdaExpression when -> follows the argument.
C27_CallSuffixes ==
  /\ result.status = "returned" =>
       \A call \in NodesOfKind("FunctionCall") :
         \E kids \in {NotTriviaChildren(call.children)} :
           /\ Len(kids) = 2
           /\ kids[1].tag = "Tree"
           /\ IsTree(kids[2], "ExpressionList")
           /\ \E arguments \in {NotTriviaChildren(kids[2].val.children)} :
                /\ IsToken(arguments[1], {"OpeningRoundBracket"})
                /\ \A k \in 1..Len(arguments) :
                     /\ arguments[k].tag = "Tree" =>
                          arguments[k].val.kind \in {"Expression", "LambdaExpression"}
                     /\ IsTree(arguments[k], "LambdaExpression") =>
                          \E parts \in {NotTriviaChildren(arguments[k].val.children)} :
                            Len(parts) >= 2 /\ IsToken(parts[2], {"Arrow"})
                     /\ ~IsToken(arguments[k], {"Arrow"})
  /\ \A glue \in Glues :
       /\ Parsed(SelectTokens(CallOfCall, glue)) =>
            ParsedAs(SelectOf(
              FunctionCall(FunctionCall(ColumnReference("f"),
                                        <<Expression(ColumnReference("a"))>>),
                           <<Expression(ColumnReference("b"))>>)))
       /\ Parsed(SelectTokens(CallWithLambda, glue)) =>
            ParsedAs(SelectOf(
              FunctionCall(ColumnReference("f"),
                           <<Expression(ColumnReference("a")), Leaf(<<",">>),
                             LambdaExpression(ColumnReference("b"),
                                              ColumnReference("c"))>>)))

\* f(a)(b) parsed: a FunctionCall whose callee is a FunctionCall
C27_Witness ==
  /\ Parsed(SelectTokens(CallOfCall, <<>>))
  /\ result.status = "returned"
  /\ \E call \in NodesOfKind("FunctionCall") :
       IsTree(NotTriviaChildren(call.children)[1], "FunctionCall")


RECURSIVE ClaimedLines(_, _), ClaimedChildLines(_, _)
\* the lines of the dump of a tree: one for the kind of each node, one for
\* the text in quotes of each token that is no trivia, two blanks per level
ClaimedLines(tree, level) ==
  <<indent(level) \o <<tree.kind>>>> \o ClaimedChildLines(tree.children, level)
ClaimedChildLines(children, level) ==
  IF children = <<>> THEN <<>>
  ELSE (IF Head(children).tag = "Tree" THEN ClaimedLines(Head(children).val, level + 1)
        ELSE IF Head(children).val.kind \in Trivia THEN <<>>
        ELSE <<indent(level + 1) \o <<"'">> \o Head(children).val.text \o <<"'">>>>)
       \o ClaimedChildLines(Tail(children), level)

RECURSIVE Unlines(_)
\* the lines one after the other, each with its end of line
Unlines(lines) ==
  IF lines = <<>> THEN <<>> ELSE Head(lines) \o <<"\n">> \o Unlines(Tail(lines))

Printed == out.call \in {"print", "analyze"}

\* C28: Tree.print writes one line for every node of the tree, its kind, and
\* one line with the text in quotes for every token leaf that is no trivia,
\* each after two blanks per level of nesting, a token one level below its
\* node; whitespace and comments give no line, and printing the same tree
\* again gives the same output.
C28_PrintLines ==
  Printed =>
    /\ out.buf = Unlines(ClaimedLines(result.tree, 0))
    /\ \E again \in {Tree_print(result.tree, Buffer(<<>>), 0)} :
         again.panic = NoPanic /\ again.buf = out.buf


\* C29: for every statement SELECT <columns> FROM <name> with a bare word as
\* the name of the table, whatever whitespace or comments stand between FROM
\* and the name, the analyzer run on the tree of parse records exactly the
\* name as the table; for SELECT a FROM my_table it records my_table.
C29_TableExtraction ==
  \A columns \in ColumnLists, trivia \in TableTrivia, name \in TableNames :
    (out.call = "analyze" /\ input.text = SelectFrom(columns, trivia, name)
       /\ input.pad = 0)
      => out.tables = <<name>>


\* C30: for every input, each FromClause node of the tree has exactly two
\* children, the token of the keyword FROM and then one TableIdentifier
\* tree, no trivia token being a child of the FromClause itself; and each
\* SelectStatement node has exactly one SelectClause child.
C30_ClauseShapes ==
  result.status = "returned" =>
    /\ \A from \in NodesOfKind("FromClause") :
         /\ Len(from.children) = 2
         /\ IsKeywordToken(from.children[1], "From")
         /\ IsTree(from.children[2], "TableIdentifier")
    /\ \A s \in NodesOfKind("SelectStatement") :
         Cardinality(ChildrenOfKind(s, "SelectClause")) = 1

\* a statement with two FromClause nodes, and trivia before the names of
\* the tables
C30_Witness ==
  /\ result.status = "returned"
  /\ Cardinality(NodesOfKind("FromClause")) = 2
  /\ \A from \in NodesOfKind("FromClause") :
       IsToken(from.children[2].val.children[1], Trivia)
  /\ \E s \in NodesOfKind("SelectStatement") :
       Cardinality(ChildrenOfKind(s, "FromClause")) = 2


(***************************************************************************)
(* The parser's claims on its cursor, its fuel and its event log           *)
(***************************************************************************)
\* C32: advance is only called when the cursor is not at the end of the
\* tokens: no input brings a grammar rule to advance with pos equal to the
\* number of tokens, so the assertion at the top of advance never fails.
C32_AdvanceNeverAtEof ==
  /\ parser.panic # "assertion failed: !self.eof()"
  /\ result.panic # "assertion failed: !self.eof()"

\* the events of a type among the first k of the log
CountEvents(events, k, type) == Cardinality({j \in 1..k : events[j].type = type})

\* parse_sql has returned: the grammar has run to its end on the tokens
GrammarFinished ==
  /\ lex.tokenize_with_whitespace.status = "returned"
  /\ pc \in {"build_tree", "for", "done", "printed", "analyzed"}
  /\ ~Unwinding(parser)

\* C33: whenever parse_sql returns, the event log is well nested: its first
\* event is the Open of the root, its last a Close, every proper prefix
\* holds more Open than Close events, and there are as many Advance events
\* as tokens; so the replay never pops an empty stack and ends with one
\* tree, of kind File, and no token left.
C33_EventLogWellNested ==
  GrammarFinished =>
    \E events \in {parser.events} :
      /\ events # <<>>
      /\ events[1] = OpenEvent("File")
      /\ events[Len(events)] = CloseEvent
      /\ \A k \in 1..Len(events) - 1 :
           CountEvents(events, k, "Open") > CountEvents(events, k, "Close")
      /\ CountEvents(events, Len(events), "Open") = CountEvents(events, Len(events), "Close")
      /\ CountEvents(events, Len(events), "Advance") = Len(parser.tokens)
      /\ build.panic = NoPanic
      /\ result.status # "panicked"
      /\ pc \in {"done", "printed", "analyzed"} =>
           /\ result.status = "returned"
           /\ result.tree.kind = "File"
           /\ build.events = <<>> /\ build.tokens = <<>> /\ Len(build.stack) = 1

\* a tree returned for a log with a node opened before another
C33_Witness ==
  /\ GrammarFinished
  /\ pc = "done"
  /\ result.status = "returned"
  /\ NodesOfKind("BinaryExpression") # {}
  /\ CountEvents(parser.events, Len(parser.events), "Advance") >= 5

\* a call of a rule on the parser that has returned
Returns(name) == pc = "calls" /\ out'.call = name /\ ~Unwinding(parser')
LookaheadCalls == {"nth", "nth_text", "at", "at_any"}

\* C31: each lookahead call (nth, at, at_any, nth_text) takes exactly one unit
\* of fuel and advance() leaves the fuel at exactly 256, so that the fuel is
\* 256 less the lookahead calls since the most recent advance(): a lookahead
\* that skips no trivia leaves one unit less than it found, one that skips
\* trivia (which advances) leaves 256 or 255, and open, open_before and close
\* leave the fuel alone.
C31_FuelAccounting ==
  [][/\ Returns("advance") => parser'.fuel = 256
     /\ \A name \in LookaheadCalls :
          Returns(name) =>
            IF parser'.pos = parser.pos
            THEN parser'.fuel = parser.fuel - 1
            ELSE parser'.fuel \in {255, 256}
     /\ \A name \in {"open", "open_before", "close"} :
          Returns(name) => parser'.fuel = parser.fuel]_vars


\* C37: the cursor only moves forward: pos never decreases, grows by exactly
\* one per advance() and by nothing else, never exceeds the number of tokens,
\* and at every moment is the number of Advance events in the event log.
C37_CursorForward ==
  [][/\ parser'.pos >= parser.pos
     /\ parser'.pos <= Len(parser'.tokens)
     /\ parser'.pos = CountEvents(parser'.events, Len(parser'.events), "Advance")
     /\ parser'.pos - parser.pos =
          CountEvents(parser'.events, Len(parser'.events), "Advance")
            - CountEvents(parser.events, Len(parser.events), "Advance")
     /\ Returns("advance") => parser'.pos = parser.pos + 1
     /\ \A name \in {"open", "open_before", "close", "recover_with_error"} :
          Returns(name) => parser'.pos = parser.pos]_vars

C37_Witness ==
  /\ pc = "calls"
  /\ out.call = "advance"
  /\ ~Unwinding(parser)
  /\ parser.pos = 3
  /\ \E k \in 1..Len(parser.events) : parser.events[k].type = "Open"

\* a call of a rule on the parser, returned or not
Calls(name) == pc = "calls" /\ out'.call = name

\* C35: error recovery takes at most one token and never stops the parse:
\* recover_with_error appends exactly Open(ErrorTree), Close and leaves the
\* cursor where it is; advance_with_error appends an ErrorTree node that holds
\* exactly one token (cursor + 1) when not at the end of the tokens, and an
\* empty ErrorTree (cursor unchanged) at the end.
C35_ErrorRecovery ==
  [][/\ Calls("recover_with_error") =>
          /\ ~Unwinding(parser')
          /\ parser'.events = parser.events \o <<OpenEvent("ErrorTree"), CloseEvent>>
          /\ parser'.pos = parser.pos
     /\ Calls("advance_with_error") =>
          /\ ~Unwinding(parser')
          /\ IF ~eof(parser)
             THEN /\ parser'.events = parser.events
                       \o <<OpenEvent("ErrorTree"), AdvanceEvent, CloseEvent>>
                  /\ parser'.pos = parser.pos + 1
             ELSE /\ parser'.events = parser.events
                       \o <<OpenEvent("ErrorTree"), CloseEvent>>
                  /\ parser'.pos = parser.pos]_vars

\* advance_with_error called before the end of the tokens and at the end
C35_Witness ==
  /\ pc = "calls"
  /\ out.call = "advance_with_error"
  /\ ~Unwinding(parser)
  /\ eof(parser)
  /\ parser.events =
       <<AdvanceEvent, OpenEvent("ErrorTree"), AdvanceEvent, CloseEvent,
         OpenEvent("ErrorTree"), CloseEvent>>

RECURSIVE NodeEnds(_, _, _)
\* the place of the Close event of the node whose Open event is at place k,
\* 0 when the log ends before: depth counts the nodes open at place k
NodeEnds(events, k, depth) ==
  IF k > Len(events) THEN 0
  ELSE IF events[k].type = "Open" THEN NodeEnds(events, k + 1, depth + 1)
  ELSE IF events[k].type = "Close"
  THEN IF depth = 1 THEN k ELSE NodeEnds(events, k + 1, depth - 1)
  ELSE NodeEnds(events, k + 1, depth)

\* C34: open_before(m) inserts exactly one Open event at the place of the
\* Open event of the node m, closed already, and changes nothing else: the
\* events in the log keep their content and their order and the cursor does
\* not move; after the matching close the children of the new node are the
\* node m followed by everything recorded after m was closed.
C34_OpenBeforeFrame ==
  [][/\ Calls("open_before") =>
          \E lhs \in {Top(out'.frames).mark} :
            /\ lhs + 1 \in 1..Len(parser.events)
            /\ parser.events[lhs + 1].type = "Open"
            /\ NodeEnds(parser.events, lhs + 1, 0) # 0
            /\ Len(parser'.events) = Len(parser.events) + 1
            /\ parser'.events[lhs + 1].type = "Open"
            /\ SubSeq(parser'.events, 1, lhs) = SubSeq(parser.events, 1, lhs)
            /\ SubSeq(parser'.events, lhs + 2, Len(parser'.events))
                 = SubSeq(parser.events, lhs + 1, Len(parser.events))
            /\ parser' = [parser EXCEPT !.events = parser'.events,
                                         !.marks = parser'.marks]
     /\ (Calls("close") /\ Top(out.frames).before) =>
          \E f \in {Top(out.frames)} :
            /\ ~Unwinding(parser')
            /\ parser'.events[f.mark + 1] = OpenEvent("BinaryExpression")
            /\ SubSeq(parser'.events, 1, f.mark) = SubSeq(f.events, 1, f.mark)
            /\ SubSeq(parser'.events, f.mark + 2, Len(f.events) + 1)
                 = SubSeq(f.events, f.mark + 1, Len(f.events))
            /\ SubSeq(parser'.events, f.mark + 2, Len(parser.events))
                 = SubSeq(parser.events, f.mark + 2, Len(parser.events))
            /\ NodeEnds(parser'.events, f.mark + 2, 0) \in f.mark + 3..Len(f.events) + 1
            /\ NodeEnds(parser'.events, f.mark + 1, 0) = Len(parser'.events)
     /\ (pc' = "done" /\ result'.status = "returned") =>
          \A t \in {n \in Subtrees(result'.tree) : n.kind = "BinaryExpression"} :
            /\ t.children # <<>>
            /\ t.children[1].tag = "Tree"]_vars

\* a tree built in which a node opened before a node holds that node and a
\* token taken after the node was closed
C34_Witness ==
  /\ pc = "done"
  /\ out.call = "build_tree"
  /\ result.status = "returned"
  /\ \E t \in NodesOfKind("BinaryExpression") :
       /\ Len(t.children) = 2
       /\ IsTree(t.children[1], "ColumnReference")
       /\ Len(t.children[1].val.children) = 1
       /\ IsToken(t.children[2], {"Plus"})

\* C38: at every close(m, kind) the event at the index of m is still the
\* Open placeholder made for m, because every open_before inserts at an index
\* greater than that of each mark still open: close never overwrites an
\* Advance, a Close or the Open event of another node; when the grammar has
\* finished no node is left open.
C38_MarksValid ==
  /\ parser.marks_valid
  /\ \A k \in parser.marks :
       k < Len(parser.events) /\ parser.events[k + 1] = OpenEvent("ErrorTree")
  /\ GrammarFinished => parser.marks = {}

\* a parse in which open_before was called in a node opened before a node
C38_Witness ==
  /\ GrammarFinished
  /\ pc = "done"
  /\ result.status = "returned"
  /\ \E t \in NodesOfKind("BinaryExpression") :
       \E k \in 1..Len(t.children) :
         /\ k > 1
         /\ t.children[k].tag = "Tree"
         /\ t.children[k].val.kind \in {"BinaryExpression", "FunctionCall", "CastExpression"}

\* C40: parse halts on every token sequence, with a tree or a panic, and
\* cannot loop for ever: an iteration of the loop of parse_sql advances the
\* cursor or takes fuel, the fuel stays within 0..256, and so a parse that
\* makes no progress is stopped by the fuel guard.
C40_ParseHalts ==
  /\ <>(pc = "done")
  /\ [](parser.fuel \in 0..256)
  /\ [][(pc = "while" /\ ~eof(parser)) =>
          \/ parser'.pos > parser.pos
          \/ parser'.fuel < parser.fuel
          \/ Unwinding(parser')]_vars

\* a parse that made no progress and was stopped by the fuel guard
C40_Witness ==
  /\ pc = "done"
  /\ result.status = "panicked"
  /\ result.panic = "parser is stuck"
  /\ parser.pos < Len(parser.tokens)

====
